---------------------------- MODULE Spec2Model ----------------------------
(***************************************************************************)
(* State-machine model of the access-control / workflow / dependency core  *)
(* of the task manager backend (backend/app/services, backend/app/api/v1,  *)
(* backend/scripts).                                                       *)
(*                                                                         *)
(* Conventions                                                             *)
(*   - identifiers (uuid values) are small positive integers;              *)
(*   - a Python Optional is a sequence of length 0 (None) or 1;            *)
(*   - a Mongo collection read with find() is a sequence in natural        *)
(*     (insertion) order;                                                  *)
(*   - `last` records the most recent call, its arguments and what it      *)
(*     returned or raised, so that results are observable in the state.    *)
(***************************************************************************)
EXTENDS Integers, Sequences, FiniteSets, Bags, TLC

(***************************************************************************)
(* Bounds of the model                                                     *)
(***************************************************************************)
NumTasks == 3
NumUsers == 4
NumProjects == 2
MaxDeps == 2
MaxNewWorkflows == 2
MaxAuditCopies == 1
NumCallers == 2
NumGraphTasks == 4
MaxGraphEdges == 3

Tasks == 1..NumTasks
Users == 1..NumUsers
Projects == 1..NumProjects
Callers == 1..NumCallers
GraphTasks == 1..NumGraphTasks

None == <<>>
Some(x) == <<x>>

(***************************************************************************)
(* Small helpers on sequences                                              *)
(***************************************************************************)
Range(s) == {s[i] : i \in 1..Len(s)}

RECURSIVE MapFieldLoop(_, _, _)
MapFieldLoop(s, f, i) ==
    IF i > Len(s) THEN <<>> ELSE <<s[i][f]>> \o MapFieldLoop(s, f, i + 1)

\* [x[f] for x in s]
MapField(s, f) == MapFieldLoop(s, f, 1)

\* first index of s whose element satisfies Test, 0 when there is none
FirstIndex(s, Test(_)) ==
    IF \E i \in 1..Len(s) : Test(s[i])
    THEN CHOOSE i \in 1..Len(s) : Test(s[i]) /\ \A j \in 1..(i - 1) : ~Test(s[j])
    ELSE 0

(***************************************************************************)
(* Reference data: scripts/seed_data.py                                    *)
(***************************************************************************)
ROLES == <<"CEO", "Admin", "Manager", "Team Lead", "Member">>

Resources == <<"user", "project", "task", "team", "time">>
Actions == <<"create", "read", "update", "delete">>

\* PERMISSIONS, in declaration order: one (resource, action) per entry
PERMISSIONS ==
    [i \in 1..(Len(Resources) * Len(Actions)) |->
        [resource |-> Resources[((i - 1) \div Len(Actions)) + 1],
         action   |-> Actions[((i - 1) % Len(Actions)) + 1]]]

PermName(res, act) == <<res, act>>

ROLE_PERMISSIONS(role) ==
    CASE role = "CEO" -> {PermName(PERMISSIONS[i].resource, PERMISSIONS[i].action) :
                            i \in 1..Len(PERMISSIONS)}
      [] role = "Admin" ->
           {<<"user", "create">>, <<"user", "read">>, <<"user", "update">>, <<"user", "delete">>}
      [] role = "Manager" ->
           {<<"user", "read">>, <<"user", "update">>,
            <<"project", "create">>, <<"project", "read">>, <<"project", "update">>,
            <<"project", "delete">>,
            <<"task", "create">>, <<"task", "read">>, <<"task", "update">>, <<"task", "delete">>,
            <<"team", "create">>, <<"team", "read">>, <<"team", "update">>, <<"team", "delete">>,
            <<"time", "read">>, <<"time", "update">>}
      [] role = "Team Lead" ->
           {<<"user", "read">>, <<"project", "read">>,
            <<"task", "create">>, <<"task", "read">>, <<"task", "update">>, <<"task", "delete">>,
            <<"team", "read">>, <<"team", "update">>,
            <<"time", "create">>, <<"time", "read">>, <<"time", "update">>}
      [] role = "Member" ->
           {<<"user", "read">>, <<"project", "read">>,
            <<"task", "read">>, <<"task", "update">>,
            <<"team", "read">>,
            <<"time", "create">>, <<"time", "read">>, <<"time", "update">>}
      [] OTHER -> {}

\* the Role collection after seed_roles_and_permissions: id = position in ROLES
RoleDocs == [i \in 1..Len(ROLES) |-> [id |-> i, name |-> ROLES[i]]]

\* the Permission collection: id = position in PERMISSIONS
PermissionDocs ==
    [i \in 1..Len(PERMISSIONS) |->
        [id |-> i, resource |-> PERMISSIONS[i].resource, action |-> PERMISSIONS[i].action]]

\* the RolePermission collection, as the set of (role_id, permission_id) rows
RolePermissionDocs ==
    {rp \in [role_id : 1..Len(ROLES), permission_id : 1..Len(PERMISSIONS)] :
        PermName(PERMISSIONS[rp.permission_id].resource, PERMISSIONS[rp.permission_id].action)
            \in ROLE_PERMISSIONS(ROLES[rp.role_id])}

RoleIdOf(name) == CHOOSE i \in 1..Len(ROLES) : ROLES[i] = name


(***************************************************************************)
(* State                                                                   *)
(***************************************************************************)
VARIABLES
    users,            \* User collection: id -> [state, organization_id]
    user_roles,       \* UserRole collection (sequence of rows)
    projects,         \* Project collection: id -> [state, organization_id]
    tasks,            \* Task collection: id -> [state, project_id, status]
    workflows,        \* Workflow collection (sequence of documents)
    dependencies,     \* TaskDependency collection (sequence of documents)
    nextDepId,        \* next fresh TaskDependency id
    auditLog,         \* AuditLog collection (bag of entries)
    calls,            \* create_dependency calls in progress: caller -> frame
    cacheCalls,       \* cache and role-lookup calls in progress: caller -> frame
    wfCalls,          \* default-setting workflow calls in progress: caller -> frame
    redis,            \* content of the Redis server: user id -> Optional JSON text
    redis_client,     \* cache_service._redis_client
    cache_available,  \* cache_service._cache_available
    last              \* the most recent call: [op, args, ret, obs]

vars == <<users, user_roles, projects, tasks, workflows, dependencies, nextDepId,
          auditLog, calls, cacheCalls, wfCalls, redis, redis_client, cache_available,
          last>>

userVars == <<users, user_roles>>
cacheVars == <<redis, redis_client, cache_available>>
taskVars == <<tasks, projects>>
\* the frames of the calls in progress
callVars == <<calls, cacheCalls, wfCalls>>
depVars == <<dependencies, nextDepId, callVars>>

(***************************************************************************)
(* services/cache_service.py                                               *)
(*                                                                         *)
(* The cache state is passed as a record cs = [client, avail, redis].      *)
(* env describes the Redis side of one cache call: env.create is whether   *)
(* the client object can be constructed, env.ping whether the ping is      *)
(* answered, env.op whether the get/setex/delete command is answered.      *)
(***************************************************************************)
CacheUp == [create |-> TRUE, ping |-> TRUE, op |-> TRUE]

CacheState == [client |-> redis_client, avail |-> cache_available, redis |-> redis]

_get_client(cs, env) ==
    IF cs.client # None THEN cs
    ELSE IF ~env.create THEN [cs EXCEPT !.avail = FALSE]
    ELSE IF ~env.ping THEN [cs EXCEPT !.client = Some("client"), !.avail = FALSE]
    ELSE [cs EXCEPT !.client = Some("client"), !.avail = TRUE]

JsonNull == <<"null">>

\* json.dumps(value, default=str) of a role list: one tuple per entry,
\* a None scope_id is written as null
JsonDumps(value) ==
    [i \in 1..Len(value) |->
        <<value[i].role_id, value[i].role_name, value[i].scope_type,
          IF value[i].scope_id = None THEN JsonNull ELSE value[i].scope_id[1]>>]

\* json.loads
JsonLoads(data) ==
    [i \in 1..Len(data) |->
        [role_id |-> data[i][1], role_name |-> data[i][2], scope_type |-> data[i][3],
         scope_id |-> IF data[i][4] = JsonNull THEN None ELSE Some(data[i][4])]]

\* a failed command is answered with an empty list instead of a miss
CacheGetEmptyOnError(key, cs, env) ==
    LET cs1 == _get_client(cs, env) IN
    IF ~cs1.avail \/ cs1.client = None THEN [ret |-> None, cs |-> cs1]
    ELSE IF ~env.op THEN [ret |-> Some(<<>>), cs |-> cs1]
    ELSE IF cs1.redis[key] = None THEN [ret |-> None, cs |-> cs1]
    ELSE [ret |-> Some(JsonLoads(cs1.redis[key][1])), cs |-> cs1]

\* returns [ret, cs]; ret is an Optional
cache_get(key, cs, env) ==
    LET cs1 == _get_client(cs, env) IN
    IF ~cs1.avail \/ cs1.client = None THEN [ret |-> None, cs |-> cs1]
    ELSE IF ~env.op THEN [ret |-> None, cs |-> cs1]
    ELSE IF cs1.redis[key] = None THEN [ret |-> None, cs |-> cs1]
    ELSE [ret |-> Some(JsonLoads(cs1.redis[key][1])), cs |-> cs1]

\* returns the cache state after the call
cache_set(key, value, cs, env) ==
    LET cs1 == _get_client(cs, env) IN
    IF ~cs1.avail \/ cs1.client = None THEN cs1
    ELSE IF ~env.op THEN cs1
    ELSE [cs1 EXCEPT !.redis[key] = Some(JsonDumps(value))]

\* returns the cache state after the call
cache_delete(key, cs, env) ==
    LET cs1 == _get_client(cs, env) IN
    IF ~cs1.avail \/ cs1.client = None THEN cs1
    ELSE IF ~env.op THEN cs1
    ELSE [cs1 EXCEPT !.redis[key] = None]

\* the globals and the server content after a call
SetCache(cs) ==
    /\ redis' = cs.redis
    /\ redis_client' = cs.client
    /\ cache_available' = cs.avail

\* the key of a user's entry is the user id itself
cache_key_user_roles(user_id) == user_id

(***************************************************************************)
(* services/permission_service.py                                          *)
(***************************************************************************)
\* str(uuid)
Str(id) == <<"uuid", id>>

\* UserRole.find(UserRole.user_id == u).to_list()
UserRolesOf(rows, u) == SelectSeq(rows, LAMBDA ur : ur.user_id = u)

OrgRolesOf(rows, u) ==
    SelectSeq(rows, LAMBDA ur : ur.user_id = u /\ ur.scope_type = "organization"
                                /\ ur.scope_id = None)

ScopedRolesOf(rows, u, scope_type, scope_id) ==
    SelectSeq(rows, LAMBDA ur : ur.user_id = u /\ ur.scope_type = scope_type
                                /\ ur.scope_id = Some(scope_id))

\* Permission.find_one(resource, action): Optional document
PermissionFindOne(res, act) ==
    LET i == FirstIndex(PermissionDocs, LAMBDA p : p.resource = res /\ p.action = act)
    IN IF i = 0 THEN None ELSE Some(PermissionDocs[i])

\* the organization-wide rows are read only when no scope is supplied
CheckPermissionScopedOnly(rows, user_id, resource, action, scope_type, scope_id) ==
    LET found == IF scope_type # None /\ scope_id # None
                 THEN ScopedRolesOf(rows, user_id, scope_type[1], scope_id[1])
                 ELSE OrgRolesOf(rows, user_id)
        role_ids == MapField(found, "role_id")
        permission == PermissionFindOne(resource, action)
    IN /\ role_ids # <<>>
       /\ permission # None
       /\ \E rp \in RolePermissionDocs :
              rp.permission_id = permission[1].id /\ rp.role_id \in Range(role_ids)

\* scope_type and scope_id are Optionals
check_permission(rows, user_id, resource, action, scope_type, scope_id) ==
    LET found == IF scope_type # None /\ scope_id # None
                 THEN ScopedRolesOf(rows, user_id, scope_type[1], scope_id[1])
                          \o OrgRolesOf(rows, user_id)
                 ELSE OrgRolesOf(rows, user_id)
        role_ids == MapField(found, "role_id")
        permission == PermissionFindOne(resource, action)
    IN IF role_ids = <<>> THEN FALSE
       ELSE IF permission = None THEN FALSE
       ELSE LET role_permissions ==
                    {rp \in RolePermissionDocs : rp.permission_id = permission[1].id}
            IN \E rp \in role_permissions : rp.role_id \in Range(role_ids)

\* role_dict.get(ur.role_id, Role(name="Unknown")).name
RoleNameOf(role_id) ==
    LET i == FirstIndex(RoleDocs, LAMBDA r : r.id = role_id)
    IN IF i = 0 THEN "Unknown" ELSE RoleDocs[i].name

\* the list built on a cache miss
RoleProjection(rows, user_id) ==
    LET found == UserRolesOf(rows, user_id) IN
    [i \in 1..Len(found) |->
        [role_id |-> Str(found[i].role_id),
         role_name |-> RoleNameOf(found[i].role_id),
         scope_type |-> found[i].scope_type,
         scope_id |-> IF found[i].scope_id # None THEN Some(Str(found[i].scope_id[1]))
                      ELSE None]]

\* the store is read first and the cache only written
GetUserRolesStoreFirst(rows, user_id, cs, env) ==
    LET cache_key == cache_key_user_roles(user_id)
        cached == cache_get(cache_key, cs, env.get)
        result == RoleProjection(rows, user_id)
    IN IF result = <<>> THEN [ret |-> <<>>, cs |-> cached.cs]
       ELSE [ret |-> result, cs |-> cache_set(cache_key, result, cached.cs, env.set)]

\* env = [get, set]: the Redis side of the cache_get and of the cache_set.
\* Returns [ret, cs].
get_user_roles(rows, user_id, cs, env) ==
    LET cache_key == cache_key_user_roles(user_id)
        cached == cache_get(cache_key, cs, env.get)
    IN IF cached.ret # None THEN [ret |-> cached.ret[1], cs |-> cached.cs]
       ELSE IF UserRolesOf(rows, user_id) = <<>> THEN [ret |-> <<>>, cs |-> cached.cs]
       ELSE LET result == RoleProjection(rows, user_id)
            IN [ret |-> result, cs |-> cache_set(cache_key, result, cached.cs, env.set)]

RoleEnvUp == [get |-> CacheUp, set |-> CacheUp]

(***************************************************************************)
(* The cache helpers and get_user_roles as the event loop runs them: a     *)
(* call runs from one await to the next in one step.  cacheCalls[c] is the *)
(* frame of caller c: op is the function called, cmd the cache command it  *)
(* is in (get, set, delete), key the user, value the list to be written,   *)
(* ret the value returned (an Optional), skipped whether the last command  *)
(* returned at the availability test, built the number of client objects   *)
(* this caller has constructed.                                            *)
(***************************************************************************)
IdleCacheCall ==
    [pc |-> "idle", op |-> "", cmd |-> "", key |-> 0, value |-> <<>>, ret |-> None,
     skipped |-> FALSE, built |-> 0]

CacheOps == {"cache_get", "cache_set", "cache_delete", "get_user_roles"}

FirstCommand(op) ==
    IF op = "cache_set" THEN "set" ELSE IF op = "cache_delete" THEN "delete" ELSE "get"

\* the frame when its cache command has returned `got` (an Optional, None
\* for a miss, a no-op or a command that returns nothing)
AfterCommand(f, got) ==
    IF f.op = "get_user_roles"
    THEN IF f.cmd = "get"
         THEN IF got # None THEN [f EXCEPT !.pc = "done", !.ret = got]
              ELSE [f EXCEPT !.pc = "store"]
         ELSE [f EXCEPT !.pc = "done"]
    ELSE [f EXCEPT !.pc = "done", !.ret = got]

\* `if not _cache_available or not client: return`
SkipCommand(f) == AfterCommand([f EXCEPT !.skipped = TRUE], None)

\* the client is constructed whenever the cache is not marked available
EnterCommandUnlessAvailable(c, f, createOk) ==
    IF redis_client # None /\ cache_available
    THEN /\ cacheCalls' = [cacheCalls EXCEPT ![c] = [f EXCEPT !.pc = "op"]]
         /\ UNCHANGED <<redis_client, cache_available>>
    ELSE IF ~createOk
    THEN /\ cacheCalls' = [cacheCalls EXCEPT ![c] = SkipCommand(f)]
         /\ cache_available' = FALSE
         /\ UNCHANGED redis_client
    ELSE /\ cacheCalls' = [cacheCalls EXCEPT ![c] =
                              [f EXCEPT !.pc = "ping", !.built = f.built + 1]]
         /\ redis_client' = Some("client")
         /\ UNCHANGED cache_available

\* a cache helper is entered: _get_client up to its first await (lines
\* 19-29), and the availability test when _get_client returns at once.
\* createOk: whether redis.from_url returns a client.
EnterCommand(c, f, createOk) ==
    IF redis_client # None
    THEN /\ cacheCalls' = [cacheCalls EXCEPT ![c] =
                              IF cache_available THEN [f EXCEPT !.pc = "op"]
                              ELSE SkipCommand(f)]
         /\ UNCHANGED <<redis_client, cache_available>>
    ELSE IF ~createOk
    THEN /\ cacheCalls' = [cacheCalls EXCEPT ![c] = SkipCommand(f)]
         /\ cache_available' = FALSE
         /\ UNCHANGED redis_client
    ELSE /\ cacheCalls' = [cacheCalls EXCEPT ![c] =
                              [f EXCEPT !.pc = "ping", !.built = f.built + 1]]
         /\ redis_client' = Some("client")
         /\ UNCHANGED cache_available

\* steps of these calls leave the stores, the log and the other frames alone
CacheCallFrame ==
    UNCHANGED <<userVars, taskVars, workflows, dependencies, nextDepId, auditLog,
                calls, wfCalls, last>>

\* a call of one of the helpers, or of get_user_roles, begins
CacheCallStart(c, op, key, createOk) ==
    /\ cacheCalls[c].pc \in {"idle", "done"}
    /\ EnterCommand(c, [IdleCacheCall EXCEPT !.op = op, !.cmd = FirstCommand(op),
                                              !.key = key,
                                              !.value = IF op = "cache_set"
                                                        THEN RoleProjection(user_roles, key)
                                                        ELSE <<>>,
                                              !.built = cacheCalls[c].built],
                    createOk)
    /\ UNCHANGED redis
    /\ CacheCallFrame

\* the ping is answered or raises (lines 29-35), then the availability test
CachePing(c, pingOk) ==
    /\ cacheCalls[c].pc = "ping"
    /\ cache_available' = pingOk
    /\ cacheCalls' = [cacheCalls EXCEPT ![c] =
                         IF pingOk THEN [cacheCalls[c] EXCEPT !.pc = "op"]
                         ELSE SkipCommand(cacheCalls[c])]
    /\ UNCHANGED <<redis, redis_client>>
    /\ CacheCallFrame

\* client.get / client.setex / client.delete is answered or raises
CacheCommand(c, opOk) ==
    LET f == cacheCalls[c]
        got == IF f.cmd = "get" /\ opOk /\ redis[f.key] # None
               THEN Some(JsonLoads(redis[f.key][1])) ELSE None
    IN /\ f.pc = "op"
       /\ redis' = IF ~opOk THEN redis
                   ELSE IF f.cmd = "set" THEN [redis EXCEPT ![f.key] = Some(JsonDumps(f.value))]
                   ELSE IF f.cmd = "delete" THEN [redis EXCEPT ![f.key] = None]
                   ELSE redis
       /\ cacheCalls' = [cacheCalls EXCEPT ![c] = AfterCommand(f, got)]
       /\ UNCHANGED <<redis_client, cache_available>>
       /\ CacheCallFrame

\* get_user_roles after a miss: the rows are read (lines 115-132) and
\* cache_set is entered
GetUserRolesStoreRead(c, createOk) ==
    LET f == cacheCalls[c]
        result == RoleProjection(user_roles, f.key)
    IN /\ f.pc = "store"
       /\ IF UserRolesOf(user_roles, f.key) = <<>>
          THEN /\ cacheCalls' = [cacheCalls EXCEPT ![c] =
                                    [f EXCEPT !.pc = "done", !.ret = Some(<<>>)]]
               /\ UNCHANGED <<redis_client, cache_available>>
          ELSE EnterCommand(c, [f EXCEPT !.cmd = "set", !.value = result,
                                         !.ret = Some(result), !.skipped = FALSE],
                            createOk)
       /\ UNCHANGED redis
       /\ CacheCallFrame

(***************************************************************************)
(* services/audit_service.py                                               *)
(***************************************************************************)
AuditEntry(action, resource_type, resource_id, user_id) ==
    [action |-> action, resource_type |-> resource_type,
     resource_id |-> resource_id, user_id |-> user_id]

\* the model stores at most MaxAuditCopies copies of one record
AuditRoom(log, action, resource_type, resource_id, user_id) ==
    CopiesIn(AuditEntry(action, resource_type, resource_id, user_id), log) < MaxAuditCopies

\* the AuditLog collection after a successful log_action
log_action(log, action, resource_type, resource_id, user_id) ==
    log (+) SetToBag({AuditEntry(action, resource_type, resource_id, user_id)})

(***************************************************************************)
(* Results of calls                                                        *)
(***************************************************************************)
Ok(value) == <<"ok", value>>
ValueError(msg) == <<"ValueError", msg>>
HTTPException(code) == <<"HTTPException", code>>
\* an exception raised by the data store while the audit record is written
AuditFailure == <<"Exception", "audit_log.insert">>

\* obs: what the call met on its way (the role names it resolved, the path it
\* took), <<>> if nothing is recorded
CallObs(op, args, ret, obs) == [op |-> op, args |-> args, ret |-> ret, obs |-> obs]
Call(op, args, ret) == CallObs(op, args, ret, <<>>)

(***************************************************************************)
(* Lookups                                                                 *)
(***************************************************************************)
\* Task.find_one(Task.id == id, Task.deleted_at == None)
TaskFindActive(id) ==
    IF id \in DOMAIN tasks /\ tasks[id] # None /\ ~tasks[id][1].deleted
    THEN tasks[id] ELSE None

\* Project.find_one(Project.id == id, Project.organization_id == org,
\*                  Project.deleted_at == None)
ProjectFindInOrg(id, org) ==
    IF id \in DOMAIN projects /\ projects[id] # None /\ ~projects[id][1].deleted
       /\ projects[id][1].organization_id = org
    THEN projects[id] ELSE None

\* Project.find_one(Project.id == id, Project.deleted_at == None)
ProjectFindActive(id) ==
    IF id \in DOMAIN projects /\ projects[id] # None /\ ~projects[id][1].deleted
    THEN projects[id] ELSE None

\* core/dependencies.py get_current_user: the user behind a valid token
CurrentUser(id) ==
    IF id \in DOMAIN users /\ users[id] # None /\ ~users[id][1].deleted
       /\ users[id][1].is_active
    THEN users[id] ELSE None

\* core/dependencies.py require_permission(resource, action): the HTTP error
\* raised for the caller, or None when the handler body runs
require_permission(actor, resource, action) ==
    IF CurrentUser(actor) = None THEN Some(HTTPException(401))
    ELSE IF ~check_permission(user_roles, actor, resource, action, None, None)
         THEN Some(HTTPException(403))
    ELSE None

(***************************************************************************)
(* services/dependency_service.py                                          *)
(***************************************************************************)
DependencyTypes == {"blocks", "relates_to"}

\* TaskDependency.find(TaskDependency.task_id == t).to_list()
DependenciesOf(deps, t) == SelectSeq(deps, LAMBDA d : d.task_id = t)

\* the body of the while loop (lines 81-97); to_check is the queue
RECURSIVE CircularLoop(_, _, _, _)
CircularLoop(deps, task_id, to_check, visited) ==
    IF to_check = <<>> THEN FALSE
    ELSE LET current_task_id == Head(to_check)
             rest == Tail(to_check)
         IN IF current_task_id = task_id THEN TRUE
            ELSE IF current_task_id \in visited
                 THEN CircularLoop(deps, task_id, rest, visited)
            ELSE LET visited1 == visited \cup {current_task_id}
                     found == DependenciesOf(deps, current_task_id)
                     fresh == SelectSeq(found,
                                        LAMBDA d : d.depends_on_task_id \notin visited1)
                 IN CircularLoop(deps, task_id,
                                 rest \o MapField(fresh, "depends_on_task_id"), visited1)

\* the traversal started from the wrong end
HasCircularSwapped(deps, task_id, depends_on_task_id) ==
    CircularLoop(deps, depends_on_task_id, <<task_id>>, {})

\* a task that has any edge of its own counts as leading back
HasCircularOnAnyEdge(deps, task_id, depends_on_task_id) ==
    \/ CircularLoop(deps, task_id, <<depends_on_task_id>>, {})
    \/ DependenciesOf(deps, depends_on_task_id) # <<>>

_has_circular_dependency(deps, task_id, depends_on_task_id) ==
    CircularLoop(deps, task_id, <<depends_on_task_id>>, {})

\* TaskDependency.find_one(task_id == t, depends_on_task_id == d) is not None
DependencyExists(deps, t, d) ==
    \E i \in 1..Len(deps) : deps[i].task_id = t /\ deps[i].depends_on_task_id = d

\* the ValueError raised by the checks of create_dependency (lines 23-52),
\* None when they all pass
CreateDependencyError(deps, task_id, depends_on_task_id) ==
    IF TaskFindActive(task_id) = None THEN Some("Task not found")
    ELSE IF TaskFindActive(depends_on_task_id) = None THEN Some("Dependency task not found")
    ELSE IF task_id = depends_on_task_id THEN Some("Task cannot depend on itself")
    ELSE IF _has_circular_dependency(deps, task_id, depends_on_task_id)
         THEN Some("Circular dependency detected")
    ELSE IF DependencyExists(deps, task_id, depends_on_task_id)
         THEN Some("Dependency already exists")
    ELSE None

\* the document is inserted before the duplicate check instead of after it
CreateDependencyInsertFirst(task_id, depends_on_task_id, dependency_type, user_id, auditOk) ==
    LET err == CreateDependencyError(dependencies, task_id, depends_on_task_id)
        args == <<task_id, depends_on_task_id, dependency_type, user_id>>
        dependency == [id |-> nextDepId, task_id |-> task_id,
                       depends_on_task_id |-> depends_on_task_id,
                       type |-> dependency_type]
    IN /\ UNCHANGED <<userVars, cacheVars, taskVars, workflows, callVars>>
       /\ IF err # None /\ err # Some("Dependency already exists")
          THEN /\ last' = Call("create_dependency", args, ValueError(err[1]))
               /\ UNCHANGED <<dependencies, nextDepId, auditLog>>
          ELSE /\ nextDepId <= MaxDeps
               /\ dependencies' = Append(dependencies, dependency)
               /\ nextDepId' = nextDepId + 1
               /\ IF err # None
                  THEN /\ auditLog' = auditLog
                       /\ last' = Call("create_dependency", args, ValueError(err[1]))
                  ELSE /\ AuditRoom(auditLog, "create", "task_dependency", Str(dependency.id), Str(user_id))
                       /\ auditLog' = log_action(auditLog, "create", "task_dependency", Str(dependency.id), Str(user_id))
                       /\ last' = Call("create_dependency", args, Ok(dependency))

create_dependency(task_id, depends_on_task_id, dependency_type, user_id, auditOk) ==
    LET err == CreateDependencyError(dependencies, task_id, depends_on_task_id)
        args == <<task_id, depends_on_task_id, dependency_type, user_id>>
        dependency == [id |-> nextDepId, task_id |-> task_id,
                       depends_on_task_id |-> depends_on_task_id,
                       type |-> dependency_type]
    IN IF err # None
       THEN /\ last' = Call("create_dependency", args, ValueError(err[1]))
            /\ UNCHANGED <<dependencies, nextDepId, auditLog>>
            /\ UNCHANGED <<userVars, cacheVars, taskVars, workflows, callVars>>
       ELSE /\ nextDepId <= MaxDeps
            /\ UNCHANGED <<userVars, cacheVars, taskVars, workflows, callVars>>
            /\ dependencies' = Append(dependencies, dependency)
            /\ nextDepId' = nextDepId + 1
            /\ IF auditOk
               THEN /\ AuditRoom(auditLog, "create", "task_dependency", Str(dependency.id), Str(user_id))
                    /\ auditLog' = log_action(auditLog, "create", "task_dependency", Str(dependency.id), Str(user_id))
                    /\ last' = Call("create_dependency", args, Ok(dependency))
               ELSE /\ auditLog' = auditLog
                    /\ last' = Call("create_dependency", args, AuditFailure)

delete_dependency(dependency_id, user_id, auditOk) ==
    LET i == FirstIndex(dependencies, LAMBDA d : d.id = dependency_id)
        args == <<dependency_id, user_id>>
    IN IF i = 0
       THEN /\ last' = Call("delete_dependency", args, ValueError("Dependency not found"))
            /\ UNCHANGED <<dependencies, auditLog>>
            /\ UNCHANGED <<userVars, cacheVars, taskVars, workflows, nextDepId, callVars>>
       ELSE /\ UNCHANGED <<userVars, cacheVars, taskVars, workflows, nextDepId, callVars>>
            /\ dependencies' = SubSeq(dependencies, 1, i - 1)
                                  \o SubSeq(dependencies, i + 1, Len(dependencies))
            /\ IF auditOk
               THEN /\ AuditRoom(auditLog, "delete", "task_dependency", Str(dependency_id), Str(user_id))
                    /\ auditLog' = log_action(auditLog, "delete", "task_dependency", Str(dependency_id), Str(user_id))
                    /\ last' = Call("delete_dependency", args, Ok(TRUE))
               ELSE /\ auditLog' = auditLog
                    /\ last' = Call("delete_dependency", args, AuditFailure)

\* the title of a task: payload the model does not vary, one value per task
TaskTitle(id) == <<"title", id>>

\* Task.find_one(Task.id == id): no filter on deleted_at
TaskFindAny(tsks, id) ==
    IF id \in DOMAIN tsks THEN tsks[id] ELSE None

BlockingEntry(id, task) ==
    [task_id |-> Str(id), title |-> TaskTitle(id), status |-> task.status]

\* every edge of the task counts, whatever its type
CheckBlockingAnyType(deps, tsks, task_id) ==
    LET blocking_deps == SelectSeq(deps, LAMBDA d : d.task_id = task_id)
        kept == SelectSeq(blocking_deps,
                          LAMBDA dep : LET blocking_task == TaskFindAny(tsks, dep.depends_on_task_id)
                                       IN blocking_task # None
                                          /\ blocking_task[1].status # "Done")
    IN [i \in 1..Len(kept) |->
           BlockingEntry(kept[i].depends_on_task_id,
                         TaskFindAny(tsks, kept[i].depends_on_task_id)[1])]

\* DependencyService.check_blocking_tasks: the list of entries, in the order
\* of the edges
check_blocking_tasks(deps, tsks, task_id) ==
    LET blocking_deps == SelectSeq(deps, LAMBDA d : d.task_id = task_id /\ d.type = "blocks")
        kept == SelectSeq(blocking_deps,
                          LAMBDA dep : LET blocking_task == TaskFindAny(tsks, dep.depends_on_task_id)
                                       IN blocking_task # None
                                          /\ blocking_task[1].status # "Done")
    IN [i \in 1..Len(kept) |->
           BlockingEntry(kept[i].depends_on_task_id,
                         TaskFindAny(tsks, kept[i].depends_on_task_id)[1])]

CheckBlockingTasks(task_id) ==
    /\ last' = Call("check_blocking_tasks", <<task_id>>,
                    check_blocking_tasks(dependencies, tasks, task_id))
    /\ UNCHANGED <<userVars, cacheVars, taskVars, depVars, workflows, auditLog>>

\* the cycle check called on its own
HasCircularDependency(task_id, depends_on_task_id) ==
    /\ last' = Call("_has_circular_dependency", <<task_id, depends_on_task_id>>,
                    _has_circular_dependency(dependencies, task_id, depends_on_task_id))
    /\ UNCHANGED <<userVars, cacheVars, taskVars, depVars, workflows, auditLog>>

(***************************************************************************)
(* create_dependency as the event loop runs it: a call is suspended at     *)
(* each await (one store read or write) and other calls run in between.    *)
(* calls[c] is the frame of caller c: its position, its arguments, the     *)
(* locals of _has_circular_dependency, the tasks whose edges it has        *)
(* fetched (reads) and the value returned or raised.                       *)
(***************************************************************************)
IdleCall ==
    [pc |-> "idle", task_id |-> 0, depends_on_task_id |-> 0, type |-> "", user_id |-> 0,
     to_check |-> <<>>, visited |-> {}, reads |-> <<>>, dependency |-> None, ret |-> None]

\* the frame after the call has returned or raised
Finished(frame, ret) == [frame EXCEPT !.pc = "done", !.ret = Some(ret)]

\* steps of a call leave everything but the edges, the log and the frames alone
CallFrame == UNCHANGED <<userVars, cacheVars, taskVars, workflows, last, cacheCalls, wfCalls>>

\* a request arrives
CallBegin(c, task_id, depends_on_task_id, dependency_type, user_id) ==
    /\ calls[c].pc = "idle"
    /\ calls' = [calls EXCEPT ![c] =
                    [IdleCall EXCEPT !.pc = "find_task", !.task_id = task_id,
                                     !.depends_on_task_id = depends_on_task_id,
                                     !.type = dependency_type, !.user_id = user_id]]
    /\ UNCHANGED <<dependencies, nextDepId, auditLog>>
    /\ CallFrame

\* lines 24-29
CallFindTask(c) ==
    /\ calls[c].pc = "find_task"
    /\ calls' = [calls EXCEPT ![c] =
                    IF TaskFindActive(calls[c].task_id) = None
                    THEN Finished(calls[c], ValueError("Task not found"))
                    ELSE [calls[c] EXCEPT !.pc = "find_depends_on"]]
    /\ UNCHANGED <<dependencies, nextDepId, auditLog>>
    /\ CallFrame

\* the second task is looked up and nothing else is checked
CallFindDependsOnUnchecked(c) ==
    /\ calls[c].pc = "find_depends_on"
    /\ calls' = [calls EXCEPT ![c] =
                    IF TaskFindActive(calls[c].depends_on_task_id) = None
                    THEN Finished(calls[c], ValueError("Dependency task not found"))
                    ELSE [calls[c] EXCEPT !.pc = "find_existing"]]
    /\ UNCHANGED <<dependencies, nextDepId, auditLog>>
    /\ CallFrame

\* lines 31-40 and the entry of _has_circular_dependency (lines 77-79)
CallFindDependsOn(c) ==
    /\ calls[c].pc = "find_depends_on"
    /\ calls' = [calls EXCEPT ![c] =
                    IF TaskFindActive(calls[c].depends_on_task_id) = None
                    THEN Finished(calls[c], ValueError("Dependency task not found"))
                    ELSE IF calls[c].task_id = calls[c].depends_on_task_id
                    THEN Finished(calls[c], ValueError("Task cannot depend on itself"))
                    ELSE [calls[c] EXCEPT !.pc = "cycle",
                                          !.to_check = <<calls[c].depends_on_task_id>>,
                                          !.visited = {}]]
    /\ UNCHANGED <<dependencies, nextDepId, auditLog>>
    /\ CallFrame

\* the loop without the visited set: every task popped is fetched again
CallCycleStepNoVisited(c) ==
    LET f == calls[c]
        current_task_id == Head(f.to_check)
        found == DependenciesOf(dependencies, current_task_id)
    IN /\ f.pc = "cycle"
       /\ calls' = [calls EXCEPT ![c] =
                       IF f.to_check = <<>> THEN [f EXCEPT !.pc = "find_existing"]
                       ELSE IF current_task_id = f.task_id
                       THEN Finished(f, ValueError("Circular dependency detected"))
                       ELSE [f EXCEPT !.reads = Append(f.reads, current_task_id),
                                      !.to_check = Tail(f.to_check)
                                          \o MapField(found, "depends_on_task_id")]]
       /\ UNCHANGED <<dependencies, nextDepId, auditLog>>
       /\ CallFrame

\* one turn of the while loop (lines 81-97), with its store read; the loop
\* left with an empty queue returns False (line 99) and the call goes on
CallCycleStep(c) ==
    LET f == calls[c]
        current_task_id == Head(f.to_check)
        visited1 == f.visited \cup {current_task_id}
        found == DependenciesOf(dependencies, current_task_id)
        fresh == SelectSeq(found, LAMBDA d : d.depends_on_task_id \notin visited1)
    IN /\ f.pc = "cycle"
       /\ calls' = [calls EXCEPT ![c] =
                       IF f.to_check = <<>> THEN [f EXCEPT !.pc = "find_existing"]
                       ELSE IF current_task_id = f.task_id
                       THEN Finished(f, ValueError("Circular dependency detected"))
                       ELSE IF current_task_id \in f.visited
                       THEN [f EXCEPT !.to_check = Tail(f.to_check)]
                       ELSE [f EXCEPT !.visited = visited1,
                                      !.reads = Append(f.reads, current_task_id),
                                      !.to_check = Tail(f.to_check)
                                          \o MapField(fresh, "depends_on_task_id")]]
       /\ UNCHANGED <<dependencies, nextDepId, auditLog>>
       /\ CallFrame

\* lines 47-52
CallFindExisting(c) ==
    /\ calls[c].pc = "find_existing"
    /\ calls' = [calls EXCEPT ![c] =
                    IF DependencyExists(dependencies, calls[c].task_id,
                                        calls[c].depends_on_task_id)
                    THEN Finished(calls[c], ValueError("Dependency already exists"))
                    ELSE [calls[c] EXCEPT !.pc = "insert"]]
    /\ UNCHANGED <<dependencies, nextDepId, auditLog>>
    /\ CallFrame

\* lines 54-59
CallInsert(c) ==
    LET dependency == [id |-> nextDepId, task_id |-> calls[c].task_id,
                       depends_on_task_id |-> calls[c].depends_on_task_id,
                       type |-> calls[c].type]
    IN /\ calls[c].pc = "insert"
       /\ nextDepId <= MaxDeps
       /\ dependencies' = Append(dependencies, dependency)
       /\ nextDepId' = nextDepId + 1
       /\ calls' = [calls EXCEPT ![c] =
                       [calls[c] EXCEPT !.pc = "audit", !.dependency = Some(dependency)]]
       /\ UNCHANGED auditLog
       /\ CallFrame

\* lines 62-69
CallAudit(c) ==
    LET dependency == calls[c].dependency[1]
    IN /\ calls[c].pc = "audit"
       /\ AuditRoom(auditLog, "create", "task_dependency", Str(dependency.id),
                    Str(calls[c].user_id))
       /\ auditLog' = log_action(auditLog, "create", "task_dependency", Str(dependency.id),
                                 Str(calls[c].user_id))
       /\ calls' = [calls EXCEPT ![c] = Finished(calls[c], Ok(dependency))]
       /\ UNCHANGED <<dependencies, nextDepId>>
       /\ CallFrame

(***************************************************************************)
(* api/v1/tasks.py                                                         *)
(*                                                                         *)
(* Of a Task document the model keeps project_id, status and deleted_at;   *)
(* the other fields (title, assignee, position, attachments, ...) and the  *)
(* activity and notification collections play no part in the properties.   *)
(***************************************************************************)
\* a fresh uuid: the least id without a document
FreshTaskId == CHOOSE t \in Tasks : tasks[t] = None /\ \A x \in Tasks : x < t => tasks[x] # None

\* teamOk: whether the project is assigned to a team the caller leads
\* (Team and ProjectTeam collections, lines 281-302)
create_task(actor, project_id, status, teamOk, env, auditOk) ==
    LET args == <<actor, project_id, status>>
        denied == require_permission(actor, "task", "create")
        current_user == CurrentUser(actor)
        roles == get_user_roles(user_roles, actor, CacheState, env)
        task_id == FreshTaskId
    IN /\ UNCHANGED <<userVars, projects, workflows, depVars>>
       /\ IF denied # None
          THEN /\ last' = Call("create_task", args, denied[1])
               /\ UNCHANGED <<tasks, auditLog, cacheVars>>
          ELSE IF ProjectFindInOrg(project_id, current_user[1].organization_id) = None
          THEN /\ last' = Call("create_task", args, HTTPException(404))
               /\ UNCHANGED <<tasks, auditLog, cacheVars>>
          ELSE IF "Team Lead" \in Range(MapField(roles.ret, "role_name")) /\ ~teamOk
          THEN /\ last' = Call("create_task", args, HTTPException(403))
               /\ SetCache(roles.cs)
               /\ UNCHANGED <<tasks, auditLog>>
          ELSE /\ \E t \in Tasks : tasks[t] = None
               /\ SetCache(roles.cs)
               /\ tasks' = [tasks EXCEPT ![task_id] =
                               Some([project_id |-> project_id, status |-> status,
                                     deleted |-> FALSE])]
               /\ IF auditOk
                  THEN /\ AuditRoom(auditLog, "create", "task", Str(task_id), Str(actor))
                       /\ auditLog' = log_action(auditLog, "create", "task", Str(task_id), Str(actor))
                       /\ last' = Call("create_task", args, Ok(task_id))
                  ELSE /\ auditLog' = auditLog
                       /\ last' = Call("create_task", args, AuditFailure)

\* status is an Optional: the status field of TaskUpdate when it is set
update_task(actor, task_id, status, auditOk) ==
    LET args == <<actor, task_id, status>>
        denied == require_permission(actor, "task", "update")
        current_user == CurrentUser(actor)
        task == TaskFindActive(task_id)
    IN /\ UNCHANGED <<userVars, projects, workflows, depVars, cacheVars>>
       /\ IF denied # None
          THEN /\ last' = Call("update_task", args, denied[1])
               /\ UNCHANGED <<tasks, auditLog>>
          ELSE IF task = None
          THEN /\ last' = Call("update_task", args, HTTPException(404))
               /\ UNCHANGED <<tasks, auditLog>>
          ELSE IF ProjectFindInOrg(task[1].project_id, current_user[1].organization_id) = None
          THEN /\ last' = Call("update_task", args, HTTPException(404))
               /\ UNCHANGED <<tasks, auditLog>>
          ELSE /\ tasks' = IF status = None THEN tasks
                           ELSE [tasks EXCEPT ![task_id] =
                                    Some([task[1] EXCEPT !.status = status[1]])]
               /\ IF auditOk
                  THEN /\ AuditRoom(auditLog, "update", "task", Str(task_id), Str(actor))
                       /\ auditLog' = log_action(auditLog, "update", "task", Str(task_id), Str(actor))
                       /\ last' = Call("update_task", args, Ok(task_id))
                  ELSE /\ auditLog' = auditLog
                       /\ last' = Call("update_task", args, AuditFailure)

delete_task(actor, task_id, auditOk) ==
    LET args == <<actor, task_id>>
        denied == require_permission(actor, "task", "delete")
        current_user == CurrentUser(actor)
        task == TaskFindActive(task_id)
    IN /\ UNCHANGED <<userVars, projects, workflows, depVars, cacheVars>>
       /\ IF denied # None
          THEN /\ last' = Call("delete_task", args, denied[1])
               /\ UNCHANGED <<tasks, auditLog>>
          ELSE IF task = None
          THEN /\ last' = Call("delete_task", args, HTTPException(404))
               /\ UNCHANGED <<tasks, auditLog>>
          ELSE IF ProjectFindInOrg(task[1].project_id, current_user[1].organization_id) = None
          THEN /\ last' = Call("delete_task", args, HTTPException(404))
               /\ UNCHANGED <<tasks, auditLog>>
          ELSE /\ tasks' = [tasks EXCEPT ![task_id] = Some([task[1] EXCEPT !.deleted = TRUE])]
               /\ IF auditOk
                  THEN /\ AuditRoom(auditLog, "delete", "task", Str(task_id), Str(actor))
                       /\ auditLog' = log_action(auditLog, "delete", "task", Str(task_id), Str(actor))
                       /\ last' = Call("delete_task", args, Ok(None))
                  ELSE /\ auditLog' = auditLog
                       /\ last' = Call("delete_task", args, AuditFailure)

(***************************************************************************)
(* services/workflow_service.py and api/v1/workflows.py                    *)
(*                                                                         *)
(* Of a Workflow document the model keeps id, project_id, statuses,        *)
(* transitions, is_default and deleted_at (name and description are        *)
(* payload).  A transition is [from_status, to_status, allowed_roles], and *)
(* allowed_roles a sequence of role names.                                 *)
(***************************************************************************)
\* default page size of WorkflowService.list_workflows
ListLimit == 100

Transition(from_status, to_status, allowed_roles) ==
    [from_status |-> from_status, to_status |-> to_status, allowed_roles |-> allowed_roles]

\* Workflow.find(project_id == p, is_default == True, deleted_at == None).to_list(),
\* as the indices of the documents found
DefaultIndices(wfs, project_id) ==
    {i \in 1..Len(wfs) : wfs[i].project_id = project_id /\ wfs[i].is_default
                         /\ ~wfs[i].deleted}

\* list_workflows(project_id, skip, limit): the indices of the page returned;
\* project_id is an Optional
list_workflows(wfs, project_id, skip, limit) ==
    LET matching == {i \in 1..Len(wfs) :
                        /\ ~wfs[i].deleted
                        /\ (project_id # None => wfs[i].project_id = project_id[1])}
        Position(i) == Cardinality({j \in matching : j <= i})
    IN {i \in matching : Position(i) > skip /\ Position(i) <= skip + limit}

\* the first workflow of the project, default or not
GetAnyProjectWorkflow(wfs, project_id) ==
    LET i == FirstIndex(wfs, LAMBDA w : w.project_id = project_id /\ ~w.deleted)
    IN IF i = 0 THEN None ELSE Some(wfs[i])

\* WorkflowService.get_project_workflow: Optional document
get_project_workflow(wfs, project_id) ==
    LET i == FirstIndex(wfs, LAMBDA w : w.project_id = project_id /\ w.is_default
                                        /\ ~w.deleted)
    IN IF i = 0 THEN None ELSE Some(wfs[i])

\* the documents created by requests (the collection starts empty or
\* bulk-loaded with ListLimit documents, see InitBulk)
CreatedWorkflows ==
    IF Len(workflows) >= ListLimit THEN Len(workflows) - ListLimit ELSE Len(workflows)

\* for wf in ...: wf.is_default = False; await wf.save()
ClearDefaults(wfs, S) ==
    [i \in 1..Len(wfs) |-> IF i \in S THEN [wfs[i] EXCEPT !.is_default = FALSE] ELSE wfs[i]]

create_workflow(project_id, statuses, transitions, is_default, created_by, auditOk) ==
    LET args == <<project_id, statuses, transitions, is_default, created_by>>
        cleared == IF is_default
                   THEN ClearDefaults(workflows, DefaultIndices(workflows, project_id))
                   ELSE workflows
        workflow == [id |-> Len(workflows) + 1, project_id |-> project_id,
                     statuses |-> statuses, transitions |-> transitions,
                     is_default |-> is_default, deleted |-> FALSE]
    IN /\ UNCHANGED <<userVars, cacheVars, taskVars, depVars>>
       /\ IF ProjectFindActive(project_id) = None
          THEN /\ last' = Call("create_workflow", args, ValueError("Project not found"))
               /\ UNCHANGED <<workflows, auditLog>>
          ELSE /\ CreatedWorkflows < MaxNewWorkflows
               /\ workflows' = Append(cleared, workflow)
               /\ IF auditOk
                  THEN /\ AuditRoom(auditLog, "create", "workflow", Str(workflow.id), Str(created_by))
                       /\ auditLog' = log_action(auditLog, "create", "workflow", Str(workflow.id), Str(created_by))
                       /\ last' = Call("create_workflow", args, Ok(workflow.id))
                  ELSE /\ auditLog' = auditLog
                       /\ last' = Call("create_workflow", args, AuditFailure)

\* workflow_data = [statuses, transitions, is_default], each an Optional
\* (the field of WorkflowUpdate, None when it is not sent)
update_workflow(actor, workflow_id, workflow_data) ==
    LET args == <<actor, workflow_id, workflow_data>>
        denied == require_permission(actor, "project", "update")
        i == FirstIndex(workflows, LAMBDA w : w.id = workflow_id /\ ~w.deleted)
        workflow == workflows[i]
        statuses1 == IF workflow_data.statuses # None /\ workflow_data.statuses[1] # <<>>
                     THEN workflow_data.statuses[1] ELSE workflow.statuses
        transitions1 == IF workflow_data.transitions # None
                           /\ workflow_data.transitions[1] # <<>>
                        THEN workflow_data.transitions[1] ELSE workflow.transitions
        is_default1 == IF workflow_data.is_default # None
                       THEN workflow_data.is_default[1] ELSE workflow.is_default
        existing_defaults == list_workflows(workflows, Some(workflow.project_id), 0, ListLimit)
        others == IF workflow_data.is_default # None /\ workflow_data.is_default[1]
                  THEN {j \in existing_defaults :
                            workflows[j].id # workflow.id /\ workflows[j].is_default}
                  ELSE {}
        cleared == ClearDefaults(workflows, others)
    IN /\ UNCHANGED <<userVars, cacheVars, taskVars, depVars, auditLog>>
       /\ IF denied # None
          THEN /\ last' = Call("update_workflow", args, denied[1])
               /\ UNCHANGED workflows
          ELSE IF i = 0
          THEN /\ last' = Call("update_workflow", args, HTTPException(404))
               /\ UNCHANGED workflows
          ELSE /\ workflows' = [cleared EXCEPT ![i] =
                                   [workflow EXCEPT !.statuses = statuses1,
                                                    !.transitions = transitions1,
                                                    !.is_default = is_default1]]
               /\ last' = Call("update_workflow", args, Ok(workflow.id))

\* the first transition that leaves from_status, whatever its target
FindTransitionFromOnly(transitions, from_status, to_status) ==
    LET i == FirstIndex(transitions, LAMBDA t : t.from_status = from_status)
    IN IF i = 0 THEN None ELSE Some(transitions[i])

\* for trans in workflow.transitions: first one with the pair (lines 99-103);
\* Optional transition
FindTransition(transitions, from_status, to_status) ==
    LET i == FirstIndex(transitions, LAMBDA t : t.from_status = from_status
                                                /\ t.to_status = to_status)
    IN IF i = 0 THEN None ELSE Some(transitions[i])

\* every role of the user has to be allowed, instead of any
HasAllRoles(role_names, allowed_roles) ==
    \A i \in 1..Len(role_names) : role_names[i] \in Range(allowed_roles)

\* any(role in transition.allowed_roles for role in role_names)
HasAnyRole(role_names, allowed_roles) ==
    \E i \in 1..Len(role_names) : role_names[i] \in Range(allowed_roles)

ReasonNotDefined(from_status, to_status) ==
    Some([kind |-> "not defined in workflow", from_status |-> from_status,
          to_status |-> to_status])

ReasonRequiredRoles(allowed_roles) ==
    Some([kind |-> "required roles", roles |-> allowed_roles])

Decision(allowed, reason) == [allowed |-> allowed, reason |-> reason]

\* the value returned, the cache state left and the role names resolved:
\* [ret, cs, obs]; obs is an Optional, None when get_user_roles is not called
ValidateTransition(wfs, rows, cs, project_id, from_status, to_status, user_id, env) ==
    LET workflow == get_project_workflow(wfs, project_id)
        transition == FindTransition(workflow[1].transitions, from_status, to_status)
        roles == get_user_roles(rows, user_id, cs, env)
        role_names == MapField(roles.ret, "role_name")
    IN IF workflow = None
       THEN [ret |-> Decision(TRUE, None), cs |-> cs, obs |-> None]
       ELSE IF transition = None
       THEN [ret |-> Decision(FALSE, ReasonNotDefined(from_status, to_status)),
             cs |-> cs, obs |-> None]
       ELSE IF transition[1].allowed_roles # <<>>
       THEN IF ~HasAnyRole(role_names, transition[1].allowed_roles)
            THEN [ret |-> Decision(FALSE, ReasonRequiredRoles(transition[1].allowed_roles)),
                  cs |-> roles.cs, obs |-> Some(role_names)]
            ELSE [ret |-> Decision(TRUE, None), cs |-> roles.cs, obs |-> Some(role_names)]
       ELSE [ret |-> Decision(TRUE, None), cs |-> cs, obs |-> None]

\* the move to "Done" is refused while a task blocks this one
ValidateTransitionUnblockedOnly(project_id, task_id, from_status, to_status, user_id, env) ==
    LET r == ValidateTransition(workflows, user_roles, CacheState, project_id,
                                from_status, to_status, user_id, env)
        blocked == /\ to_status = "Done"
                   /\ check_blocking_tasks(dependencies, tasks, task_id) # <<>>
    IN /\ last' = CallObs("validate_transition",
                          <<project_id, task_id, from_status, to_status, user_id>>,
                          IF blocked THEN Decision(FALSE, None) ELSE r.ret, r.obs)
       /\ SetCache(r.cs)
       /\ UNCHANGED <<userVars, taskVars, depVars, workflows, auditLog>>

validate_transition(project_id, task_id, from_status, to_status, user_id, env) ==
    LET r == ValidateTransition(workflows, user_roles, CacheState, project_id,
                                from_status, to_status, user_id, env)
    IN /\ last' = CallObs("validate_transition",
                          <<project_id, task_id, from_status, to_status, user_id>>,
                          r.ret, r.obs)
       /\ SetCache(r.cs)
       /\ UNCHANGED <<userVars, taskVars, depVars, workflows, auditLog>>

\* the table is read in a different order of its entries' lists
DefaultTransitionsReversed(current_status) ==
    CASE current_status = "Backlog" -> <<"To Do">>
      [] current_status = "To Do" -> <<"Backlog", "In Progress">>
      [] current_status = "In Progress" -> <<"To Do", "Review">>
      [] current_status = "Review" -> <<"In Progress", "Done">>
      [] OTHER -> <<>>

\* default_transitions.get(current_status, []) (lines 131-138)
default_transitions(current_status) ==
    CASE current_status = "Backlog" -> <<"To Do">>
      [] current_status = "To Do" -> <<"In Progress", "Backlog">>
      [] current_status = "In Progress" -> <<"Review", "To Do">>
      [] current_status = "Review" -> <<"Done", "In Progress">>
      [] current_status = "Done" -> <<>>
      [] OTHER -> <<>>

\* the roles of the user are not looked at
AvailableUnfiltered(transitions, current_status, role_names) ==
    MapField(SelectSeq(transitions, LAMBDA t : t.from_status = current_status), "to_status")

\* the loop of lines 146-150
Available(transitions, current_status, role_names) ==
    MapField(SelectSeq(transitions,
                       LAMBDA t : /\ t.from_status = current_status
                                  /\ \/ t.allowed_roles = <<>>
                                     \/ HasAnyRole(role_names, t.allowed_roles)),
             "to_status")

\* the value returned, the cache state left and the role names resolved
GetAvailableTransitions(wfs, rows, cs, project_id, current_status, user_id, env) ==
    LET workflow == get_project_workflow(wfs, project_id)
        roles == get_user_roles(rows, user_id, cs, env)
        role_names == MapField(roles.ret, "role_name")
    IN IF workflow = None
       THEN [ret |-> default_transitions(current_status), cs |-> cs, obs |-> None]
       ELSE [ret |-> Available(workflow[1].transitions, current_status, role_names),
             cs |-> roles.cs, obs |-> Some(role_names)]

get_available_transitions(project_id, current_status, user_id, env) ==
    LET r == GetAvailableTransitions(workflows, user_roles, CacheState, project_id,
                                     current_status, user_id, env)
    IN /\ last' = CallObs("get_available_transitions",
                          <<project_id, current_status, user_id>>, r.ret, r.obs)
       /\ SetCache(r.cs)
       /\ UNCHANGED <<userVars, taskVars, depVars, workflows, auditLog>>

(***************************************************************************)
(* create_workflow and update_workflow when they set the default, as the   *)
(* event loop runs them: one step per awaited store operation.             *)
(* wfCalls[c] is the frame of caller c: op, the project, workflow (the     *)
(* document the call holds in memory: the one to insert, or the one read   *)
(* and changed), found (the documents read as current defaults), to_clear  *)
(* (those not saved yet) and the value returned or raised.                 *)
(***************************************************************************)
IdleWfCall ==
    [pc |-> "idle", op |-> "", project_id |-> 0, workflow |-> None, found |-> <<>>,
     to_clear |-> <<>>, created_by |-> 0, ret |-> None]

WfFinished(f, ret) == [f EXCEPT !.pc = "done", !.ret = Some(ret)]

\* document.save(): the stored document with this id becomes the copy held
SaveWorkflow(wfs, doc) ==
    [i \in 1..Len(wfs) |-> IF wfs[i].id = doc.id THEN doc ELSE wfs[i]]

WfCallFrame ==
    UNCHANGED <<userVars, cacheVars, taskVars, dependencies, nextDepId, calls, cacheCalls,
                last>>

\* create_workflow, lines 31-36 and the test of line 39
WfCreateBegin(c, project_id, statuses, transitions, is_default, created_by) ==
    LET f == [IdleWfCall EXCEPT !.op = "create_workflow", !.project_id = project_id,
                                !.created_by = created_by,
                                !.workflow = Some([id |-> 0, project_id |-> project_id,
                                                   statuses |-> statuses,
                                                   transitions |-> transitions,
                                                   is_default |-> is_default,
                                                   deleted |-> FALSE])]
    IN /\ wfCalls[c].pc = "idle"
       /\ wfCalls' = [wfCalls EXCEPT ![c] =
                         IF ProjectFindActive(project_id) = None
                         THEN WfFinished(f, ValueError("Project not found"))
                         ELSE IF is_default THEN [f EXCEPT !.pc = "find_defaults"]
                         ELSE [f EXCEPT !.pc = "write"]]
       /\ UNCHANGED <<workflows, auditLog>>
       /\ WfCallFrame

\* update_workflow with is_default = True in the request, lines 94-119
WfUpdateBegin(c, actor, workflow_id) ==
    LET denied == require_permission(actor, "project", "update")
        i == FirstIndex(workflows, LAMBDA w : w.id = workflow_id /\ ~w.deleted)
        f == [IdleWfCall EXCEPT !.op = "update_workflow", !.created_by = actor]
    IN /\ wfCalls[c].pc = "idle"
       /\ wfCalls' = [wfCalls EXCEPT ![c] =
                         IF denied # None THEN WfFinished(f, denied[1])
                         ELSE IF i = 0 THEN WfFinished(f, HTTPException(404))
                         ELSE [f EXCEPT !.pc = "find_defaults",
                                        !.project_id = workflows[i].project_id,
                                        !.workflow = Some([workflows[i] EXCEPT
                                                              !.is_default = TRUE])]]
       /\ UNCHANGED <<workflows, auditLog>>
       /\ WfCallFrame

\* the current defaults are read: Workflow.find(...).to_list() (lines 40-44)
\* or list_workflows (workflows.py line 121) and the test of line 123
WfFindDefaults(c) ==
    LET f == wfCalls[c]
        idx == IF f.op = "create_workflow" THEN DefaultIndices(workflows, f.project_id)
               ELSE {j \in list_workflows(workflows, Some(f.project_id), 0, ListLimit) :
                        workflows[j].id # f.workflow[1].id /\ workflows[j].is_default}
        docs == SelectSeq(workflows, LAMBDA w : \E j \in idx : workflows[j].id = w.id)
    IN /\ f.pc = "find_defaults"
       /\ wfCalls' = [wfCalls EXCEPT ![c] =
                         [f EXCEPT !.found = docs, !.to_clear = docs,
                                   !.pc = IF docs = <<>> THEN "write" ELSE "clear"]]
       /\ UNCHANGED <<workflows, auditLog>>
       /\ WfCallFrame

\* wf.is_default = False; await wf.save()
WfClearStep(c) ==
    LET f == wfCalls[c]
    IN /\ f.pc = "clear"
       /\ workflows' = SaveWorkflow(workflows, [Head(f.to_clear) EXCEPT !.is_default = FALSE])
       /\ wfCalls' = [wfCalls EXCEPT ![c] =
                         [f EXCEPT !.to_clear = Tail(f.to_clear),
                                   !.pc = IF Tail(f.to_clear) = <<>> THEN "write"
                                          ELSE "clear"]]
       /\ UNCHANGED auditLog
       /\ WfCallFrame

\* await workflow.insert() (line 58) or await workflow.save() (workflows.py
\* line 128)
WfWrite(c) ==
    LET f == wfCalls[c]
        inserted == [f.workflow[1] EXCEPT !.id = Len(workflows) + 1]
    IN /\ f.pc = "write"
       /\ IF f.op = "create_workflow"
          THEN /\ CreatedWorkflows < MaxNewWorkflows
               /\ workflows' = Append(workflows, inserted)
               /\ wfCalls' = [wfCalls EXCEPT ![c] =
                                 [f EXCEPT !.pc = "audit", !.workflow = Some(inserted)]]
          ELSE /\ workflows' = SaveWorkflow(workflows, f.workflow[1])
               /\ wfCalls' = [wfCalls EXCEPT ![c] = WfFinished(f, Ok(f.workflow[1].id))]
       /\ UNCHANGED auditLog
       /\ WfCallFrame

\* lines 61-68
WfAudit(c) ==
    LET f == wfCalls[c]
    IN /\ f.pc = "audit"
       /\ AuditRoom(auditLog, "create", "workflow", Str(f.workflow[1].id), Str(f.created_by))
       /\ auditLog' = log_action(auditLog, "create", "workflow", Str(f.workflow[1].id),
                                 Str(f.created_by))
       /\ wfCalls' = [wfCalls EXCEPT ![c] = WfFinished(f, Ok(f.workflow[1].id))]
       /\ UNCHANGED workflows
       /\ WfCallFrame

(***************************************************************************)
(* api/v1/users.py and scripts/remove_non_ceo_users.py                     *)
(*                                                                         *)
(* Of a User document the model keeps organization_id, deleted_at and      *)
(* is_active.  The email is unique per user, so the email of a request is  *)
(* identified with the id of the user that owns it (or will own it).       *)
(***************************************************************************)
\* UserRole(user_id, role_id, scope_type="organization", scope_id=None)
OrgRow(user_id, role_name) ==
    [user_id |-> user_id, role_id |-> RoleIdOf(role_name),
     scope_type |-> "organization", scope_id |-> None]

\* a live User document
UserDoc(org) == [organization_id |-> org, deleted |-> FALSE, is_active |-> TRUE]

\* UserRole.find(UserRole.user_id == u).delete()
DeleteUserRoles(rows, u) == SelectSeq(rows, LAMBDA ur : ur.user_id # u)

\* PermissionService.get_user_roles called on its own
GetUserRoles(user_id, env) ==
    LET r == get_user_roles(user_roles, user_id, CacheState, env)
    IN /\ last' = Call("get_user_roles", <<user_id>>, r.ret)
       /\ SetCache(r.cs)
       /\ UNCHANGED <<userVars, taskVars, depVars, workflows, auditLog>>

\* the entry of a user reaches its TTL (USER_ROLES_CACHE_TTL) and Redis drops it
cache_expire(user_id) ==
    /\ redis[user_id] # None
    /\ redis' = [redis EXCEPT ![user_id] = None]
    /\ last' = Call("ttl_expired", <<user_id>>, Ok(None))
    /\ UNCHANGED <<userVars, taskVars, depVars, workflows, auditLog,
                   redis_client, cache_available>>

\* env: the Redis side of get_user_roles; delEnv: of the cache_delete
create_user(actor, email, role_name, organization_id, env, delEnv, auditOk) ==
    LET args == <<actor, email, role_name, organization_id>>
        denied == require_permission(actor, "user", "create")
        roles == get_user_roles(user_roles, actor, CacheState, env)
        role_names == Range(MapField(roles.ret, "role_name"))
        db_role_name == IF role_name = "Employee" THEN "Member" ELSE role_name
        user_id == email
        existing_by_email == users[email]
        user_role == OrgRow(user_id, db_role_name)
    IN /\ UNCHANGED <<taskVars, depVars, workflows>>
       /\ IF denied # None
          THEN /\ last' = Call("create_user", args, denied[1])
               /\ UNCHANGED <<userVars, cacheVars, auditLog>>
          ELSE IF "CEO" \notin role_names /\ "Admin" \notin role_names
          THEN /\ last' = Call("create_user", args, HTTPException(403))
               /\ SetCache(roles.cs)
               /\ UNCHANGED <<userVars, auditLog>>
          ELSE IF role_name \notin {"Manager", "Team Lead", "Employee"}
          THEN /\ last' = Call("create_user", args, HTTPException(400))
               /\ SetCache(roles.cs)
               /\ UNCHANGED <<userVars, auditLog>>
          ELSE IF existing_by_email # None /\ ~existing_by_email[1].deleted
          THEN /\ last' = Call("create_user", args, HTTPException(400))
               /\ SetCache(roles.cs)
               /\ UNCHANGED <<userVars, auditLog>>
          ELSE IF existing_by_email # None
          THEN \* restore the soft-deleted user and replace the role
               /\ users' = [users EXCEPT ![user_id] = Some(UserDoc(organization_id))]
               /\ user_roles' = Append(DeleteUserRoles(user_roles, user_id), user_role)
               /\ IF auditOk
                  THEN /\ AuditRoom(auditLog, "update", "user", Str(user_id), Str(actor))
                       /\ auditLog' = log_action(auditLog, "update", "user", Str(user_id), Str(actor))
                       /\ SetCache(cache_delete(cache_key_user_roles(user_id),
                                                roles.cs, delEnv))
                       /\ last' = CallObs("create_user", args, Ok(user_id), Some("restored"))
                  ELSE /\ auditLog' = auditLog
                       /\ SetCache(roles.cs)
                       /\ last' = Call("create_user", args, AuditFailure)
          ELSE /\ users' = [users EXCEPT ![user_id] = Some(UserDoc(organization_id))]
               /\ user_roles' = Append(user_roles, user_role)
               /\ SetCache(roles.cs)
               /\ IF auditOk
                  THEN /\ AuditRoom(auditLog, "create", "user", Str(user_id), Str(actor))
                       /\ auditLog' = log_action(auditLog, "create", "user", Str(user_id), Str(actor))
                       /\ last' = Call("create_user", args, Ok(user_id))
                  ELSE /\ auditLog' = auditLog
                       /\ last' = Call("create_user", args, AuditFailure)

delete_user(actor, user_id, delEnv, auditOk) ==
    LET args == <<actor, user_id>>
        denied == require_permission(actor, "user", "delete")
        current_user == CurrentUser(actor)
        user == users[user_id]
    IN /\ UNCHANGED <<taskVars, depVars, workflows>>
       /\ IF denied # None
          THEN /\ last' = Call("delete_user", args, denied[1])
               /\ UNCHANGED <<userVars, cacheVars, auditLog>>
          ELSE IF \/ user = None
                  \/ user[1].deleted
                  \/ user[1].organization_id # current_user[1].organization_id
          THEN /\ last' = Call("delete_user", args, HTTPException(404))
               /\ UNCHANGED <<userVars, cacheVars, auditLog>>
          ELSE /\ users' = [users EXCEPT ![user_id] = Some([user[1] EXCEPT !.deleted = TRUE])]
               /\ user_roles' = DeleteUserRoles(user_roles, user_id)
               /\ SetCache(cache_delete(cache_key_user_roles(user_id), CacheState, delEnv))
               /\ IF auditOk
                  THEN /\ AuditRoom(auditLog, "delete", "user", Str(user_id), Str(actor))
                       /\ auditLog' = log_action(auditLog, "delete", "user", Str(user_id), Str(actor))
                       /\ last' = Call("delete_user", args, Ok(None))
                  ELSE /\ auditLog' = auditLog
                       /\ last' = Call("delete_user", args, AuditFailure)

\* scripts/remove_non_ceo_users.py main(): a separate process that works on
\* the database only
remove_non_ceo_users ==
    LET ceo_role == FirstIndex(RoleDocs, LAMBDA r : r.name = "CEO")
        ceo_user_ids == {user_roles[i].user_id :
                            i \in {j \in 1..Len(user_roles) :
                                      user_roles[j].role_id = RoleDocs[ceo_role].id}}
        org_ids == {users[u][1].organization_id :
                        u \in {x \in ceo_user_ids : x \in DOMAIN users /\ users[x] # None}}
        non_ceo_users == {u \in DOMAIN users :
                             /\ users[u] # None
                             /\ users[u][1].organization_id \in org_ids
                             /\ ~users[u][1].deleted
                             /\ u \notin ceo_user_ids}
    IN /\ UNCHANGED <<taskVars, depVars, workflows, cacheVars, auditLog>>
       /\ IF ceo_role = 0 \/ ceo_user_ids = {} \/ non_ceo_users = {}
          THEN /\ last' = Call("remove_non_ceo_users", <<>>, Ok({}))
               /\ UNCHANGED userVars
          ELSE /\ users' = [u \in DOMAIN users |->
                               IF u \in non_ceo_users
                               THEN Some([users[u][1] EXCEPT !.deleted = TRUE])
                               ELSE users[u]]
               /\ user_roles' = SelectSeq(user_roles,
                                          LAMBDA ur : ur.user_id \notin non_ceo_users)
               /\ last' = Call("remove_non_ceo_users", <<>>, Ok(non_ceo_users))

(***************************************************************************)
(* Initial state: the database after scripts/seed_data.py, no request      *)
(* served yet.                                                             *)
(***************************************************************************)
\* roles of the seeded demo users kept in the model, by user id
SeedUserRoles == <<"CEO", "Manager", "Member">>

SeedUserRows == [i \in 1..Len(SeedUserRoles) |-> OrgRow(i, SeedUserRoles[i])]

\* everything but the Workflow and UserRole collections
InitStore ==
    /\ users = [u \in Users |-> IF u <= Len(SeedUserRoles) THEN Some(UserDoc("demo-org"))
                                ELSE None]
    /\ projects = [p \in Projects |-> Some([organization_id |-> "demo-org",
                                            deleted |-> FALSE])]
    /\ tasks = [t \in Tasks |-> None]
    /\ dependencies = <<>>
    /\ nextDepId = 1
    /\ auditLog = EmptyBag
    /\ calls = [c \in Callers |-> IdleCall]
    /\ cacheCalls = [c \in Callers |-> IdleCacheCall]
    /\ wfCalls = [c \in Callers |-> IdleWfCall]
    /\ redis = [u \in Users |-> None]
    /\ redis_client = None
    /\ cache_available = FALSE
    /\ last = Call("init", <<>>, Ok(None))

Init ==
    /\ InitStore
    /\ user_roles = SeedUserRows
    /\ workflows = <<>>

\* a project that already has ListLimit workflows, none of them the default
BulkWorkflows ==
    [i \in 1..ListLimit |->
        [id |-> i, project_id |-> 1, statuses |-> <<>>, transitions |-> <<>>,
         is_default |-> FALSE, deleted |-> FALSE]]

\* the Workflow collection is empty or bulk-loaded
InitBulk ==
    /\ InitStore
    /\ user_roles = SeedUserRows
    /\ workflows \in {<<>>, BulkWorkflows}

\* The UserRole collection is written by user management outside the core:
\* any rows for user 1, scoped to the organization, a project or a team.
AssignmentRows ==
    [user_id : {1}, role_id : {RoleIdOf("Admin"), RoleIdOf("Member")},
     scope_type : {"organization", "project"}, scope_id : {None, Some(1), Some(2)}]

InitAssignments ==
    /\ InitStore
    /\ workflows = <<>>
    /\ user_roles \in {<<>>} \cup {<<a>> : a \in AssignmentRows}
                       \cup {<<a, b>> : a, b \in AssignmentRows}

(***************************************************************************)
(* The dependency graph: tasks are created and soft-deleted, edges are     *)
(* created and deleted, one call at a time.                                *)
(***************************************************************************)
\* The audit sink accepts every record here (auditOk = TRUE).
NextDep ==
    \/ create_task(1, 1, "Backlog", TRUE, RoleEnvUp, TRUE)
    \/ \E t \in Tasks : delete_task(1, t, TRUE)
    \/ \E t \in Tasks, d \in Tasks, ty \in DependencyTypes :
           create_dependency(t, d, ty, 1, TRUE)
    \/ \E id \in 1..MaxDeps : delete_dependency(id, 1, TRUE)

SpecDep == Init /\ [][NextDep]_vars

(***************************************************************************)
(* The dependency graph under concurrent requests: every caller makes one  *)
(* create_dependency call, suspended and resumed at its awaits, while      *)
(* tasks are created and soft-deleted.                                     *)
(***************************************************************************)
NextDepConcurrent ==
    \/ create_task(1, 1, "Backlog", TRUE, RoleEnvUp, TRUE)
    \/ delete_task(1, 1, TRUE)
    \/ \E c \in Callers, t \in {1, 2}, d \in {1, 2}, ty \in DependencyTypes :
           CallBegin(c, t, d, ty, 1)
    \/ \E c \in Callers : CallFindTask(c)
    \/ \E c \in Callers : CallFindDependsOn(c)
    \/ \E c \in Callers : CallCycleStep(c)
    \/ \E c \in Callers : CallFindExisting(c)
    \/ \E c \in Callers : CallInsert(c)
    \/ \E c \in Callers : CallAudit(c)

SpecDepConcurrent == Init /\ [][NextDepConcurrent]_vars

\* the same requests, and requests that run from their first line to their
\* last with no other call in between
NextDepOrder ==
    \/ create_task(1, 1, "Backlog", TRUE, RoleEnvUp, TRUE)
    \/ \E c \in Callers, t \in {1, 2} : CallBegin(c, t, 3 - t, "blocks", 1)
    \/ \E c \in Callers : \/ CallFindTask(c)
                          \/ CallFindDependsOn(c)
                          \/ CallCycleStep(c)
                          \/ CallFindExisting(c)
                          \/ CallInsert(c)
                          \/ CallAudit(c)
    \/ \E t \in {1, 2}, d \in {1, 2} : create_dependency(t, d, "blocks", 1, TRUE)

SpecDepOrder == Init /\ [][NextDepOrder]_vars

(***************************************************************************)
(* The TaskDependency collection as earlier requests may have left it: any *)
(* set of at most MaxGraphEdges edges between different tasks, cycles      *)
(* included (concurrent requests can store them).                          *)
(***************************************************************************)
GraphPairs == {p \in GraphTasks \X GraphTasks : p[1] # p[2]}

PairRank(p) == (p[1] - 1) * NumGraphTasks + p[2]

\* the pairs of S as documents, in the order of their rank; the ids are
\* those after the ones the requests of the behaviour will use
GraphDocs(S) ==
    [i \in 1..Cardinality(S) |->
        LET p == CHOOSE q \in S : Cardinality({r \in S : PairRank(r) < PairRank(q)}) = i - 1
        IN [id |-> MaxDeps + i, task_id |-> p[1], depends_on_task_id |-> p[2],
            type |-> "blocks"]]

InitGraph ==
    /\ users = [u \in Users |-> IF u <= Len(SeedUserRoles) THEN Some(UserDoc("demo-org"))
                                ELSE None]
    /\ projects = [p \in Projects |-> Some([organization_id |-> "demo-org",
                                            deleted |-> FALSE])]
    /\ tasks = [t \in GraphTasks |-> Some([project_id |-> 1, status |-> "Backlog",
                                           deleted |-> FALSE])]
    /\ \E S \in SUBSET GraphPairs :
           /\ Cardinality(S) <= MaxGraphEdges
           /\ dependencies = GraphDocs(S)
    /\ nextDepId = 1
    /\ auditLog = EmptyBag
    /\ calls = [c \in Callers |-> IdleCall]
    /\ cacheCalls = [c \in Callers |-> IdleCacheCall]
    /\ wfCalls = [c \in Callers |-> IdleWfCall]
    /\ redis = [u \in Users |-> None]
    /\ redis_client = None
    /\ cache_available = FALSE
    /\ last = Call("init", <<>>, Ok(None))
    /\ user_roles = SeedUserRows
    /\ workflows = <<>>

NextGraph ==
    \/ delete_task(1, NumGraphTasks, TRUE)
    \/ \E t \in GraphTasks, d \in GraphTasks : HasCircularDependency(t, d)
    \/ \E d \in GraphTasks : create_dependency(1, d, "relates_to", 1, TRUE)

SpecGraph == InitGraph /\ [][NextGraph]_vars

\* one request traverses the graph while edges are added by requests that
\* run in between; the event loop resumes a call that can go on
NextTraversal ==
    \/ \E t \in GraphTasks, d \in GraphTasks : CallBegin(1, t, d, "blocks", 1)
    \/ CallFindTask(1)
    \/ CallFindDependsOn(1)
    \/ CallCycleStep(1)
    \/ CallFindExisting(1)
    \/ CallInsert(1)
    \/ CallAudit(1)
    \/ create_dependency(1, 2, "relates_to", 1, TRUE)

SpecTraversal ==
    /\ InitGraph
    /\ [][NextTraversal]_vars
    /\ WF_vars(CallCycleStep(1))

(***************************************************************************)
(* Workflows of a project and which of them is the default.                *)
(***************************************************************************)
TL_Manager == <<Transition("Todo", "Done", <<"Manager">>)>>
TL_Open == <<Transition("Todo", "Done", <<>>),
             Transition("Done", "Backlog", <<"Manager", "CEO">>)>>
TL_Twice == <<Transition("Todo", "Done", <<"Member">>),
              Transition("Todo", "Done", <<"Manager">>)>>

NoUpdate == [statuses |-> None, transitions |-> None, is_default |-> None]

NextWfDefault ==
    \/ \E p \in Projects, d \in BOOLEAN :
           create_workflow(p, <<"Todo", "Done">>, TL_Manager, d, 1, TRUE)
    \/ \E actor \in {1, 3},
          w \in {1} \cup {k : k \in 1..MaxNewWorkflows}
                    \cup {ListLimit + k : k \in 1..MaxNewWorkflows},
          d \in {None, Some(TRUE), Some(FALSE)} :
           update_workflow(actor, w, [NoUpdate EXCEPT !.is_default = d])

SpecWfDefault == InitBulk /\ [][NextWfDefault]_vars

(***************************************************************************)
(* Transitions validated against the workflows of a project.               *)
(***************************************************************************)
NextWf ==
    \/ \E tl \in {TL_Manager, TL_Open, TL_Twice}, d \in BOOLEAN :
           create_workflow(1, <<"Todo", "Done">>, tl, d, 1, TRUE)
    \/ \E w \in 1..MaxNewWorkflows, d \in {None, Some(TRUE)},
          tl \in {None, Some(TL_Open)} :
           update_workflow(1, w, [NoUpdate EXCEPT !.is_default = d, !.transitions = tl])
    \/ \E p \in {1, 2}, from_status \in {"Todo", "Done"}, to_status \in {"Done", "Backlog"},
          u \in {2, 3, 4} :
           validate_transition(p, 1, from_status, to_status, u, RoleEnvUp)

SpecWf == Init /\ [][NextWf]_vars

(***************************************************************************)
(* The transitions offered to a user.                                      *)
(***************************************************************************)
TL_Fork == <<Transition("Todo", "Done", <<"Manager">>),
             Transition("Todo", "Backlog", <<>>),
             Transition("Done", "Todo", <<"Member", "CEO">>),
             Transition("Todo", "Review", <<"Member">>)>>

NextWfAvailable ==
    \/ \E tl \in {TL_Fork, TL_Twice}, d \in BOOLEAN :
           create_workflow(1, <<"Todo", "Done">>, tl, d, 1, TRUE)
    \/ \E p \in {1, 2}, u \in {2, 3, 4},
          current_status \in {"Todo", "Done", "Backlog", "To Do", "In Progress", "Review",
                              "Archived"} :
           get_available_transitions(p, current_status, u, RoleEnvUp)

SpecWfAvailable == Init /\ [][NextWfAvailable]_vars

\* PUT /workflows/{id} with every shape of the two list fields of
\* WorkflowUpdate: not sent, sent empty, sent with elements
NextWfEdit ==
    \/ \E d \in BOOLEAN : create_workflow(1, <<"Todo", "Done">>, TL_Manager, d, 1, TRUE)
    \/ \E w \in 1..MaxNewWorkflows,
          s \in {None, Some(<<>>), Some(<<"Open">>), Some(<<"Todo", "Review", "Done">>)},
          tl \in {None, Some(<<>>), Some(TL_Open), Some(TL_Twice)} :
           update_workflow(1, w, [NoUpdate EXCEPT !.statuses = s, !.transitions = tl])

SpecWfEdit == Init /\ [][NextWfEdit]_vars

\* both questions asked about the same workflows
NextWfAgree ==
    \/ \E tl \in {TL_Fork, TL_Twice}, d \in BOOLEAN :
           create_workflow(1, <<"Todo", "Done">>, tl, d, 1, TRUE)
    \/ \E from_status \in {"Todo", "Done"}, to_status \in {"Done", "Backlog", "Review"},
          u \in {2, 3, 4} :
           validate_transition(1, 1, from_status, to_status, u, RoleEnvUp)
    \/ \E current_status \in {"Todo", "Done"}, u \in {2, 3, 4} :
           get_available_transitions(1, current_status, u, RoleEnvUp)

SpecWfAgree == Init /\ [][NextWfAgree]_vars

\* transitions asked for by a user whose rows are scoped in every way
NextWfScope ==
    \/ create_workflow(1, <<"Todo", "Done">>, TL_Fork, TRUE, 1, TRUE)
    \/ \E to_status \in {"Done", "Review", "Backlog"} :
           validate_transition(1, 1, "Todo", to_status, 1, RoleEnvUp)
    \/ \E current_status \in {"Todo", "Done"} :
           get_available_transitions(1, current_status, 1, RoleEnvUp)

SpecWfScope == InitAssignments /\ [][NextWfScope]_vars

(***************************************************************************)
(* Requests that set the default workflow of project 1 and run step by     *)
(* step, and transitions validated in between.                             *)
(***************************************************************************)
NextWfConcurrent ==
    \/ \E c \in Callers, tl \in {TL_Manager, TL_Open} :
           WfCreateBegin(c, 1, <<"Todo", "Done">>, tl, TRUE, 1)
    \/ \E c \in Callers, w \in 1..MaxNewWorkflows : WfUpdateBegin(c, 1, w)
    \/ \E c \in Callers : WfFindDefaults(c)
    \/ \E c \in Callers : WfClearStep(c)
    \/ \E c \in Callers : WfWrite(c)
    \/ \E c \in Callers : WfAudit(c)
    \/ \E to_status \in {"Done", "Backlog"}, u \in {2, 3} :
           validate_transition(1, 1, "Todo", to_status, u, RoleEnvUp)

SpecWfConcurrent == Init /\ [][NextWfConcurrent]_vars

(***************************************************************************)
(* Status changes of tasks in a project with a workflow.                   *)
(***************************************************************************)
NextTask ==
    \/ \E d \in BOOLEAN : create_workflow(1, <<"Todo", "Done">>, TL_Manager, d, 1, TRUE)
    \/ create_task(1, 1, "Todo", TRUE, RoleEnvUp, TRUE)
    \/ \E actor \in {2, 3, 4}, status \in {None, Some("Done"), Some("Backlog")} :
           update_task(actor, 1, status, TRUE)
    \/ delete_task(1, 2, TRUE)

SpecTask == Init /\ [][NextTask]_vars

(***************************************************************************)
(* Users, their role rows and the role cache.                              *)
(***************************************************************************)
CacheDown == [create |-> TRUE, ping |-> FALSE, op |-> FALSE]
CacheEnvChoices == {CacheUp, CacheDown}

NextUsers ==
    \/ \E email \in {3, 4}, role_name \in {"Manager", "Employee", "Intern"},
          delEnv \in CacheEnvChoices :
           create_user(1, email, role_name, "demo-org", RoleEnvUp, delEnv, TRUE)
    \/ \E actor \in {1, 3}, u \in {3, 4}, delEnv \in CacheEnvChoices :
           delete_user(actor, u, delEnv, TRUE)
    \/ remove_non_ceo_users
    \/ \E u \in {3, 4}, g \in CacheEnvChoices, st \in CacheEnvChoices :
           GetUserRoles(u, [get |-> g, set |-> st])
    \/ \E u \in {3, 4} : cache_expire(u)

SpecUsers == Init /\ [][NextUsers]_vars

(***************************************************************************)
(* The role cache with every way Redis can fail a call.                    *)
(***************************************************************************)
\* from_url raises; the setex / get / delete command raises
CacheNoClient == [create |-> FALSE, ping |-> FALSE, op |-> FALSE]
CacheOpFails == [create |-> TRUE, ping |-> TRUE, op |-> FALSE]
CacheFailureChoices == {CacheUp, CacheDown, CacheNoClient, CacheOpFails}
RoleEnvChoices == [get : CacheFailureChoices, set : CacheFailureChoices]

NextCache ==
    \/ \E role_name \in {"Manager", "Team Lead"} :
           create_user(1, 3, role_name, "demo-org", RoleEnvUp, CacheUp, TRUE)
    \/ \E delEnv \in {CacheUp, CacheOpFails} : delete_user(1, 3, delEnv, TRUE)
    \/ remove_non_ceo_users
    \/ \E u \in {2, 3}, env \in RoleEnvChoices : GetUserRoles(u, env)
    \/ \E u \in {2, 3} : cache_expire(u)

SpecCache == Init /\ [][NextCache]_vars

(***************************************************************************)
(* Role lookups that run step by step while users are deleted and          *)
(* restored; the Redis server answers every command.                       *)
(***************************************************************************)
NextRoleRace ==
    \/ \E c \in Callers : CacheCallStart(c, "get_user_roles", 3, TRUE)
    \/ \E c \in Callers : CachePing(c, TRUE)
    \/ \E c \in Callers : CacheCommand(c, TRUE)
    \/ \E c \in Callers : GetUserRolesStoreRead(c, TRUE)
    \/ delete_user(1, 3, CacheUp, TRUE)
    \/ create_user(1, 3, "Manager", "demo-org", RoleEnvUp, CacheUp, TRUE)

SpecRoleRace == Init /\ [][NextRoleRace]_vars

\* the process has just started and the Redis server holds what an earlier
\* process wrote less than the TTL ago
WarmRedis ==
    [[u \in Users |-> None] EXCEPT ![3] = Some(JsonDumps(RoleProjection(SeedUserRows, 3)))]

InitWarm ==
    /\ users = [u \in Users |-> IF u <= Len(SeedUserRoles) THEN Some(UserDoc("demo-org"))
                                ELSE None]
    /\ projects = [p \in Projects |-> Some([organization_id |-> "demo-org",
                                            deleted |-> FALSE])]
    /\ tasks = [t \in Tasks |-> None]
    /\ dependencies = <<>>
    /\ nextDepId = 1
    /\ auditLog = EmptyBag
    /\ calls = [c \in Callers |-> IdleCall]
    /\ cacheCalls = [c \in Callers |-> IdleCacheCall]
    /\ wfCalls = [c \in Callers |-> IdleWfCall]
    /\ redis \in {[u \in Users |-> None], WarmRedis}
    /\ redis_client = None
    /\ cache_available = FALSE
    /\ last = Call("init", <<>>, Ok(None))
    /\ user_roles = SeedUserRows
    /\ workflows = <<>>

\* the cache helpers called by concurrent requests of a process that has
\* just started, while the Redis server answers every ping and command
NextCacheRace ==
    \/ \E c \in Callers, op \in {"cache_get", "cache_delete"}, u \in {2, 3} :
           CacheCallStart(c, op, u, TRUE)
    \/ \E c \in Callers : CachePing(c, TRUE)
    \/ \E c \in Callers : CacheCommand(c, TRUE)

SpecCacheRace == InitWarm /\ [][NextCacheRace]_vars

\* the same with a server that may refuse the construction of the client,
\* the ping or a command
NextCacheInit ==
    \/ \E c \in Callers, op \in {"cache_get", "cache_set", "cache_delete"}, ok \in BOOLEAN :
           CacheCallStart(c, op, 3, ok)
    \/ \E c \in Callers, ok \in BOOLEAN : CachePing(c, ok)
    \/ \E c \in Callers, ok \in BOOLEAN : CacheCommand(c, ok)

SpecCacheInit == Init /\ [][NextCacheInit]_vars

(***************************************************************************)
(* Requests served while the AuditLog collection may refuse a write: the   *)
(* insert of log_action either stores the record or raises.                *)
(***************************************************************************)
NextAudit ==
    \/ create_task(1, 1, "Backlog", TRUE, RoleEnvUp, TRUE)
    \/ \E t \in {1, 2}, d \in {1, 2}, ok \in BOOLEAN :
           create_dependency(t, d, "blocks", 1, ok)
    \/ \E id \in 1..MaxDeps, ok \in BOOLEAN : delete_dependency(id, 1, ok)
    \/ \E ok \in BOOLEAN :
           create_workflow(1, <<"Todo", "Done">>, TL_Manager, TRUE, 1, ok)

SpecAudit == Init /\ [][NextAudit]_vars

(***************************************************************************)
(* Tasks that change status while edges of both types are created, and the *)
(* blocking list read in between.                                          *)
(***************************************************************************)
NextBlocking ==
    \/ \E s \in {"Todo", "Done"} : create_task(1, 1, s, TRUE, RoleEnvUp, TRUE)
    \/ \E t \in {1, 2} : update_task(1, t, Some("Done"), TRUE)
    \/ delete_task(1, 1, TRUE)
    \/ \E d \in {1, 2}, ty \in DependencyTypes : create_dependency(3, d, ty, 1, TRUE)
    \/ \E t \in {1, 3} : CheckBlockingTasks(t)

SpecBlocking == Init /\ [][NextBlocking]_vars

(***************************************************************************)
(* Transitions asked for while the dependency graph and the statuses of    *)
(* the tasks change.                                                       *)
(***************************************************************************)
NextGate ==
    \/ \E s \in {"Todo", "Done"} : create_task(1, 1, s, TRUE, RoleEnvUp, TRUE)
    \/ update_task(1, 1, Some("Done"), TRUE)
    \/ \E t \in {1, 2}, d \in {1, 2} : create_dependency(t, d, "blocks", 1, TRUE)
    \/ \E tl \in {TL_Manager, TL_Open} :
           create_workflow(1, <<"Todo", "Done">>, tl, TRUE, 1, TRUE)
    \/ \E t \in {1, 2}, to_status \in {"Done", "Backlog"}, u \in {2, 3} :
           validate_transition(1, t, "Todo", to_status, u, RoleEnvUp)
    \/ \E u \in {2, 3} : get_available_transitions(1, "Todo", u, RoleEnvUp)

SpecGate == Init /\ [][NextGate]_vars

(***************************************************************************)
(* Permission checks over a given UserRole collection.                     *)
(***************************************************************************)
CheckPermission(user_id, resource, action, scope_type, scope_id) ==
    /\ last' = Call("check_permission", <<user_id, resource, action, scope_type, scope_id>>,
                    check_permission(user_roles, user_id, resource, action,
                                     scope_type, scope_id))
    /\ UNCHANGED <<userVars, cacheVars, taskVars, depVars, workflows, auditLog>>

NextPerm ==
    \E u \in {1, 2}, resource \in {"user", "task", "report"}, action \in {"update", "delete"},
       scope_type \in {None, Some("project"), Some("organization")},
       scope_id \in {None, Some(1)} :
        CheckPermission(u, resource, action, scope_type, scope_id)

SpecPerm == InitAssignments /\ [][NextPerm]_vars

(***************************************************************************)
(* Properties of the dependency graph                                      *)
(***************************************************************************)
\* the direct successors of the tasks of S: d such that some edge (s -> d) exists
Successors(deps, S) ==
    {deps[i].depends_on_task_id : i \in {j \in 1..Len(deps) : deps[j].task_id \in S}}

RECURSIVE Closure(_, _)
Closure(deps, R) ==
    LET R1 == R \cup Successors(deps, R) IN IF R1 = R THEN R ELSE Closure(deps, R1)

\* the tasks reached from a by one or more edges
ReachableFrom(deps, a) == Closure(deps, Successors(deps, {a}))

TaskIsActive(t) == t \in Tasks /\ tasks[t] # None /\ ~tasks[t][1].deleted

\* the edge collection before the call recorded in `last`
DepsBeforeLast ==
    IF last.op = "create_dependency" /\ last.ret[1] = "ok"
    THEN SelectSeq(dependencies, LAMBDA d : d.id # last.ret[2].id)
    ELSE dependencies

\* C1: after any sequence of create_dependency and delete_dependency calls
\* run one at a time from the empty edge set, no task reaches itself over the
\* edges (task_id -> depends_on_task_id), edges of both types counted.
C1_Acyclic == \A t \in Tasks : t \notin ReachableFrom(dependencies, t)

\* a chain of two edges of different types has been built
C1_Witness ==
    \E i, j \in 1..Len(dependencies) :
        /\ dependencies[i].depends_on_task_id = dependencies[j].task_id
        /\ dependencies[i].type = "blocks"
        /\ dependencies[j].type = "relates_to"

\* C2: when A reaches B over existing edges and both are existing, non-deleted
\* tasks, A # B, create_dependency(B, A, type) raises
\* "Circular dependency detected", for either type.
C2_ReverseEdgeRejected ==
    (last.op = "create_dependency"
        /\ last.args[1] # last.args[2]
        /\ TaskIsActive(last.args[1]) /\ TaskIsActive(last.args[2])
        /\ last.args[1] \in ReachableFrom(DepsBeforeLast, last.args[2]))
    => (last.ret[1] = "ValueError" /\ last.ret[2] = "Circular dependency detected")

\* the rejected edge would have closed a cycle of three edges, type relates_to
C2_Witness ==
    /\ last.op = "create_dependency"
    /\ last.ret[1] = "ValueError" /\ last.ret[2] = "Circular dependency detected"
    /\ last.args[3] = "relates_to"
    /\ ~DependencyExists(dependencies, last.args[2], last.args[1])
    /\ last.args[1] \in ReachableFrom(dependencies, last.args[2])

\* C3: a create_dependency that raises one of its validation errors leaves
\* the edge collection and the audit log as they were, and the same call
\* made again raises the same error.
C3_FailureChangesNothing ==
    [][(last'.op = "create_dependency" /\ last'.ret[1] = "ValueError")
        => /\ dependencies' = dependencies
           /\ auditLog' = auditLog
           /\ (CreateDependencyError(dependencies, last.args[1], last.args[2]))'
                 = Some(last'.ret[2])]_vars

\* a duplicate edge was refused while the collection and the log are not empty
C3_Witness ==
    /\ last.op = "create_dependency"
    /\ last.ret[1] = "ValueError" /\ last.ret[2] = "Dependency already exists"
    /\ Len(dependencies) >= 1
    /\ auditLog # EmptyBag

(***************************************************************************)
(* Properties of the workflows                                             *)
(***************************************************************************)
\* C4: once create_workflow(is_default = true) or update_workflow(is_default
\* = true) has returned, exactly one non-deleted workflow of the project is
\* the default and it is the workflow just created or updated, however many
\* workflows the project has.
C4_SingleDefault ==
    LET requested == IF last.op = "create_workflow" THEN last.args[4]
                     ELSE IF last.op = "update_workflow"
                     THEN last.args[3].is_default = Some(TRUE)
                     ELSE FALSE
    IN (requested /\ last.ret[1] = "ok")
       => LET i == last.ret[2]
          IN DefaultIndices(workflows, workflows[i].project_id) = {i}

\* the workflow that validate_transition works with
DefaultWorkflowOf(project_id) ==
    workflows[CHOOSE i \in DefaultIndices(workflows, project_id) :
                  \A j \in DefaultIndices(workflows, project_id) : i <= j]

\* positions of the transitions of wf with the pair (from_status, to_status)
MatchesOf(wf, from_status, to_status) ==
    {i \in 1..Len(wf.transitions) :
        /\ wf.transitions[i].from_status = from_status
        /\ wf.transitions[i].to_status = to_status}

\* role names of the rows of a user in the store
StoredRoleNames(user_id) ==
    {ROLES[user_roles[i].role_id] :
        i \in {j \in 1..Len(user_roles) : user_roles[j].user_id = user_id}}

\* C6: under a default workflow, when the transition matched for the pair
\* has allowed_roles, the call is allowed iff one of the user's role names is
\* among them and a refusal's reason lists all of allowed_roles; when it has
\* no allowed_roles the answer is (true, none) for every user.
C6_RoleGate ==
    (/\ last.op = "validate_transition"
     /\ DefaultIndices(workflows, last.args[1]) # {}
     /\ MatchesOf(DefaultWorkflowOf(last.args[1]), last.args[3], last.args[4]) # {})
    => LET wf == DefaultWorkflowOf(last.args[1])
           M == MatchesOf(wf, last.args[3], last.args[4])
           matched == wf.transitions[CHOOSE i \in M : \A j \in M : i <= j]
           names == StoredRoleNames(last.args[5])
       IN IF matched.allowed_roles = <<>>
          THEN last.ret = [allowed |-> TRUE, reason |-> None]
          ELSE /\ last.obs # None
               /\ Range(last.obs[1]) = names
               /\ last.ret.allowed <=> (names \cap Range(matched.allowed_roles) # {})
               /\ last.ret.allowed => last.ret.reason = None
               /\ ~last.ret.allowed =>
                      /\ last.ret.reason # None
                      /\ last.ret.reason[1].kind = "required roles"
                      /\ last.ret.reason[1].roles = matched.allowed_roles

\* a Member was refused Done -> Backlog and told the two roles required
C6_Witness ==
    /\ last.op = "validate_transition"
    /\ last.args[5] = 3
    /\ last.ret.allowed = FALSE
    /\ last.ret.reason = Some([kind |-> "required roles", roles |-> <<"Manager", "CEO">>])

\* C7: under a default workflow, a pair that is the (from_status, to_status)
\* of none of its transitions is refused with a reason naming both statuses,
\* whatever roles the user holds.
C7_UndefinedPairRefused ==
    (/\ last.op = "validate_transition"
     /\ DefaultIndices(workflows, last.args[1]) # {}
     /\ MatchesOf(DefaultWorkflowOf(last.args[1]), last.args[3], last.args[4]) = {})
    => /\ last.ret.allowed = FALSE
       /\ last.ret.reason # None
       /\ last.ret.reason[1].kind = "not defined in workflow"
       /\ last.ret.reason[1].from_status = last.args[3]
       /\ last.ret.reason[1].to_status = last.args[4]

\* the Manager was refused Todo -> Backlog although Todo -> Done is his to make
C7_Witness ==
    /\ last.op = "validate_transition"
    /\ last.args[3] = "Todo" /\ last.args[4] = "Backlog" /\ last.args[5] = 2
    /\ DefaultIndices(workflows, last.args[1]) # {}
    /\ DefaultWorkflowOf(last.args[1]).transitions = TL_Manager
    /\ last.ret.allowed = FALSE

\* C8: for a project without a non-deleted default workflow,
\* validate_transition answers (true, none) for every pair and user.
C8_NoDefaultAllowsAll ==
    (last.op = "validate_transition" /\ DefaultIndices(workflows, last.args[1]) = {})
    => last.ret = [allowed |-> TRUE, reason |-> None]

\* Done -> Backlog was allowed to a user without roles in a project whose
\* only workflow is not the default
C8_Witness ==
    /\ last.op = "validate_transition"
    /\ last.args[3] = "Done" /\ last.args[4] = "Backlog" /\ last.args[5] = 4
    /\ \E i \in 1..Len(workflows) : workflows[i].project_id = last.args[1]
    /\ DefaultIndices(workflows, last.args[1]) = {}
    /\ last.ret = [allowed |-> TRUE, reason |-> None]

\* C10: a status change persisted by update_task in a project with a default
\* workflow is one that validate_transition allows to the acting user.
C10_StatusChangeValidated ==
    [][(/\ last'.op = "update_task"
        /\ last'.ret[1] = "ok"
        /\ tasks'[last'.args[2]][1].status # tasks[last'.args[2]][1].status
        /\ DefaultIndices(workflows, tasks[last'.args[2]][1].project_id) # {})
       => ValidateTransition(workflows, user_roles, CacheState,
                             tasks[last'.args[2]][1].project_id,
                             tasks[last'.args[2]][1].status,
                             tasks'[last'.args[2]][1].status,
                             last'.args[1], RoleEnvUp).ret.allowed]_vars

(***************************************************************************)
(* Properties of the roles and permissions                                 *)
(***************************************************************************)
\* the users whose role rows the call recorded in `last` has changed
RolesChangedByLast ==
    IF last.op = "create_user"
    THEN IF last.ret[1] = "ok" /\ last.obs = Some("restored") THEN {last.ret[2]} ELSE {}
    ELSE IF last.op = "delete_user"
    THEN IF last.ret[1] = "ok" THEN {last.args[2]} ELSE {}
    ELSE IF last.op = "remove_non_ceo_users" THEN last.ret[2]
    ELSE {}

\* C5: the get_user_roles(U) that directly follows a call that changed U's
\* role rows returns the projection of the rows U has in the store.
C5_FreshRolesAfterChange ==
    [][(last'.op = "get_user_roles" /\ last'.args[1] \in RolesChangedByLast)
       => last'.ret = RoleProjection(user_roles, last'.args[1])]_vars

\* the rows of a user that apply to a check: organization-wide ones always,
\* those of the scope when a scope type and a scope id are both given
ApplicableRows(user_id, scope_type, scope_id) ==
    {i \in 1..Len(user_roles) :
        /\ user_roles[i].user_id = user_id
        /\ \/ user_roles[i].scope_type = "organization" /\ user_roles[i].scope_id = None
           \/ /\ scope_type # None /\ scope_id # None
              /\ user_roles[i].scope_type = scope_type[1]
              /\ user_roles[i].scope_id = scope_id}

\* C9: check_permission is true iff an applicable row of the user has a role
\* that ROLE_PERMISSIONS links to the registered permission (resource,
\* action); it is false otherwise, changes nothing, and the same call made
\* again gives the same value.
C9_CheckPermission ==
    [][last'.op = "check_permission"
       => LET a == last'.args
              registered == \E i \in 1..Len(PERMISSIONS) :
                                PERMISSIONS[i] = [resource |-> a[2], action |-> a[3]]
              granted == \E i \in ApplicableRows(a[1], a[4], a[5]) :
                             <<a[2], a[3]>> \in ROLE_PERMISSIONS(ROLES[user_roles[i].role_id])
          IN /\ last'.ret = (registered /\ granted)
             /\ UNCHANGED <<userVars, cacheVars, taskVars, depVars, workflows, auditLog>>
             /\ check_permission(user_roles', a[1], a[2], a[3], a[4], a[5]) = last'.ret]_vars

\* a role held in a project only granted what was asked for in that project
C9_Witness ==
    /\ last.op = "check_permission"
    /\ last.ret = TRUE
    /\ last.args[4] = Some("project") /\ last.args[5] = Some(1)
    /\ \A i \in 1..Len(user_roles) : user_roles[i].scope_type = "project"

(***************************************************************************)
(* Properties of concurrent create_dependency calls                        *)
(***************************************************************************)
\* C11: create_dependency(A, A, type) raises a validation error and inserts
\* nothing, whether A is live, soft-deleted or missing, so no edge from a
\* task to itself exists in any state, however the calls interleave.
C11_NoSelfDependency ==
    /\ \A i \in 1..Len(dependencies) :
           dependencies[i].task_id # dependencies[i].depends_on_task_id
    /\ \A c \in Callers :
           (calls[c].pc # "idle" /\ calls[c].task_id = calls[c].depends_on_task_id)
           => /\ calls[c].pc \in {"find_task", "find_depends_on", "done"}
              /\ calls[c].dependency = None
              /\ calls[c].pc = "done" => calls[c].ret[1][1] = "ValueError"

\* a call for a live task on itself was refused while another call was
\* between its duplicate check and its insert
C11_Witness ==
    \E c, o \in Callers :
        /\ calls[c].pc = "done"
        /\ calls[c].task_id = calls[c].depends_on_task_id
        /\ TaskIsActive(calls[c].task_id)
        /\ calls[c].ret = Some(ValueError("Task cannot depend on itself"))
        /\ calls[o].pc = "insert"

\* C20: whatever the interleaving of concurrent create_dependency calls, the
\* edge set stays acyclic; create_dependency(A, B) and create_dependency(B, A)
\* never both succeed.
C20_ConcurrentAcyclic ==
    /\ \A t \in Tasks : t \notin ReachableFrom(dependencies, t)
    /\ \A c, o \in Callers :
           (/\ calls[c].pc = "done" /\ calls[o].pc = "done"
            /\ calls[c].task_id = calls[o].depends_on_task_id
            /\ calls[c].depends_on_task_id = calls[o].task_id)
           => ~(calls[c].ret[1][1] = "ok" /\ calls[o].ret[1][1] = "ok")


(***************************************************************************)
(* Properties of the transitions offered                                   *)
(***************************************************************************)
\* the to_status of the transitions i..Len(transitions) that leave
\* current_status and are open to one of the role names, in workflow order
RECURSIVE OfferedFrom(_, _, _, _)
OfferedFrom(transitions, i, current_status, names) ==
    IF i > Len(transitions) THEN <<>>
    ELSE LET t == transitions[i]
             open == /\ t.from_status = current_status
                     /\ (t.allowed_roles = <<>> \/ names \cap Range(t.allowed_roles) # {})
         IN (IF open THEN <<t.to_status>> ELSE <<>>)
                \o OfferedFrom(transitions, i + 1, current_status, names)

\* C12: under a default workflow get_available_transitions returns, in
\* workflow order, the to_status of every transition from current_status
\* that has no allowed_roles or shares a role name with the user, and
\* nothing else.
C12_OfferedTransitions ==
    (last.op = "get_available_transitions" /\ DefaultIndices(workflows, last.args[1]) # {})
    => last.ret = OfferedFrom(DefaultWorkflowOf(last.args[1]).transitions, 1,
                              last.args[2], StoredRoleNames(last.args[3]))

\* the Member was offered Backlog and Review from Todo, in that order, and
\* not Done, which is the Manager's
C12_Witness ==
    /\ last.op = "get_available_transitions"
    /\ last.args = <<1, "Todo", 3>>
    /\ DefaultIndices(workflows, 1) # {}
    /\ DefaultWorkflowOf(1).transitions = TL_Fork
    /\ last.ret = <<"Backlog", "Review">>

\* C13: without a default workflow get_available_transitions returns the
\* entry of the built-in table for current_status, in declared order, to
\* every user, and the empty list for a status that is not in the table.
C13_BuiltInTable ==
    (last.op = "get_available_transitions" /\ DefaultIndices(workflows, last.args[1]) = {})
    => LET current_status == last.args[2]
       IN /\ current_status = "Backlog" => last.ret = <<"To Do">>
          /\ current_status = "To Do" => last.ret = <<"In Progress", "Backlog">>
          /\ current_status = "In Progress" => last.ret = <<"Review", "To Do">>
          /\ current_status = "Review" => last.ret = <<"Done", "In Progress">>
          /\ current_status = "Done" => last.ret = <<>>
          /\ current_status \notin {"Backlog", "To Do", "In Progress", "Review", "Done"}
                 => last.ret = <<>>

\* a user without roles asked for Review in a project whose only workflow
\* is not the default
C13_Witness ==
    /\ last.op = "get_available_transitions"
    /\ last.args[2] = "Review" /\ last.args[3] = 4
    /\ \E i \in 1..Len(workflows) : workflows[i].project_id = last.args[1]
    /\ DefaultIndices(workflows, last.args[1]) = {}
    /\ last.ret = <<"Done", "In Progress">>


(***************************************************************************)
(* Properties of the role cache                                            *)
(***************************************************************************)
\* a cache_get made now with env is answered by Redis
CacheAnswers(env) ==
    /\ env.op
    /\ \/ redis_client # None /\ cache_available
       \/ redis_client = None /\ env.create /\ env.ping

\* C14: when the cache holds an entry for U and answers, get_user_roles(U)
\* returns that entry as it is, whatever rows the store holds for U, and
\* leaves the entry in place.
C14_CacheFirst ==
    [][\A u \in Users, env \in RoleEnvChoices :
          (GetUserRoles(u, env) /\ redis[u] # None /\ CacheAnswers(env.get))
          => /\ last'.ret = JsonLoads(redis[u][1])
             /\ redis' = redis]_vars

\* the role list cached before the rows of user 3 were deleted was returned
C14_Witness ==
    /\ last.op = "get_user_roles"
    /\ last.args = <<3>>
    /\ UserRolesOf(user_roles, 3) = <<>>
    /\ Len(last.ret) = 1
    /\ last.ret[1].role_name = "Member"

\* C15: when the cache is unavailable, or the get fails, or the set after a
\* miss fails, get_user_roles(U) returns the projection of the rows the
\* store holds for U.
C15_CacheFailureReadsStore ==
    [][\A u \in Users, env \in RoleEnvChoices :
          (/\ GetUserRoles(u, env)
           /\ \/ ~CacheAnswers(env.get)
              \/ redis[u] = None /\ ~CacheAnswers(env.set))
          => last'.ret = RoleProjection(user_roles, u)]_vars

\* the get of a live client failed while Redis held an older entry of user
\* 3: the call returned what the store holds, no role at all
C15_Witness ==
    /\ last.op = "get_user_roles"
    /\ last.args = <<3>>
    /\ redis_client # None /\ cache_available
    /\ redis[3] # None
    /\ JsonLoads(redis[3][1]) # <<>>
    /\ last.ret = <<>>
    /\ RoleProjection(user_roles, 3) = <<>>

\* C16: whenever create_dependency, delete_dependency or create_workflow has
\* applied its mutation (the edge set or the workflow collection changed),
\* the call returns its value to the caller, also when the audit record
\* could not be written.
C16_AuditFailureTolerated ==
    [][(/\ last'.op \in {"create_dependency", "delete_dependency", "create_workflow"}
        /\ \/ dependencies' # dependencies
           \/ workflows' # workflows)
       => last'.ret[1] = "ok"]_vars

\* C17: after update_workflow has been served with a transitions list T (a
\* statuses list S), the stored workflow's transitions are T (its statuses
\* are S), whatever the list, the empty one included.
C17_ListsReplacedWholesale ==
    (last.op = "update_workflow" /\ last.ret[1] = "ok")
    => LET workflow_data == last.args[3]
       IN \A i \in 1..Len(workflows) :
              workflows[i].id = last.args[2]
              => /\ workflow_data.transitions # None
                    => workflows[i].transitions = workflow_data.transitions[1]
                 /\ workflow_data.statuses # None
                    => workflows[i].statuses = workflow_data.statuses[1]

\* the positions of the edges that block task T: type "blocks", the
\* depended-on task is stored and its status is not "Done"
BlockingEdges(T) ==
    {k \in 1..Len(dependencies) :
        /\ dependencies[k].task_id = T
        /\ dependencies[k].type = "blocks"
        /\ dependencies[k].depends_on_task_id \in Tasks
        /\ tasks[dependencies[k].depends_on_task_id] # None
        /\ tasks[dependencies[k].depends_on_task_id][1].status # "Done"}

\* C19: check_blocking_tasks(T) returns one entry {task_id, title, status}
\* for each "blocks" edge of T whose depended-on task is stored with a
\* status other than "Done", and nothing else: no entry for a relates_to
\* edge, none for a task that is Done.
C19_BlockingTasksExact ==
    last.op = "check_blocking_tasks"
    => LET T == last.args[1]
           entries == last.ret
       IN /\ Len(entries) = Cardinality(BlockingEdges(T))
          /\ \A x \in Tasks :
                Cardinality({i \in 1..Len(entries) : entries[i].task_id = Str(x)})
                   = Cardinality({k \in BlockingEdges(T) :
                                     dependencies[k].depends_on_task_id = x})
          /\ \A i \in 1..Len(entries) :
                \E x \in Tasks :
                    /\ tasks[x] # None
                    /\ entries[i] = [task_id |-> Str(x), title |-> TaskTitle(x),
                                     status |-> tasks[x][1].status]

\* task 3 has a relates_to edge to a task that is not Done and a blocks edge
\* to another one: the list holds the second only
C19_Witness ==
    /\ last.op = "check_blocking_tasks"
    /\ last.args = <<3>>
    /\ Len(last.ret) = 1
    /\ \E k \in 1..Len(dependencies) :
           /\ dependencies[k].task_id = 3
           /\ dependencies[k].type = "relates_to"
           /\ tasks[dependencies[k].depends_on_task_id][1].status # "Done"
           /\ last.ret[1].task_id # Str(dependencies[k].depends_on_task_id)

\* what the workflows and the role rows alone say about a transition: the
\* definition reads no task and no dependency edge
DecisionOfWorkflow(project_id, from_status, to_status, user_id) ==
    IF DefaultIndices(workflows, project_id) = {}
    THEN [allowed |-> TRUE, reason |-> None]
    ELSE LET wf == DefaultWorkflowOf(project_id)
             M == MatchesOf(wf, from_status, to_status)
             matched == wf.transitions[CHOOSE i \in M : \A j \in M : i <= j]
         IN IF M = {}
            THEN [allowed |-> FALSE,
                  reason |-> Some([kind |-> "not defined in workflow",
                                   from_status |-> from_status, to_status |-> to_status])]
            ELSE IF \/ matched.allowed_roles = <<>>
                    \/ StoredRoleNames(user_id) \cap Range(matched.allowed_roles) # {}
            THEN [allowed |-> TRUE, reason |-> None]
            ELSE [allowed |-> FALSE,
                  reason |-> Some([kind |-> "required roles",
                                   roles |-> matched.allowed_roles])]

\* the same for the list of offered statuses
OfferOfWorkflow(project_id, current_status, user_id) ==
    IF DefaultIndices(workflows, project_id) # {}
    THEN OfferedFrom(DefaultWorkflowOf(project_id).transitions, 1, current_status,
                     StoredRoleNames(user_id))
    ELSE CASE current_status = "Backlog" -> <<"To Do">>
           [] current_status = "To Do" -> <<"In Progress", "Backlog">>
           [] current_status = "In Progress" -> <<"Review", "To Do">>
           [] current_status = "Review" -> <<"Done", "In Progress">>
           [] OTHER -> <<>>

\* C18: the answers of validate_transition and get_available_transitions
\* are a function of the workflows and the role rows only; the dependency
\* edges and the statuses of the tasks have no part in them, so a move to
\* "Done" is allowed also while the task has blocking tasks.
C18_NoDependencyGate ==
    /\ last.op = "validate_transition"
          => last.ret = DecisionOfWorkflow(last.args[1], last.args[3], last.args[4],
                                           last.args[5])
    /\ last.op = "get_available_transitions"
          => last.ret = OfferOfWorkflow(last.args[1], last.args[2], last.args[3])

\* under a default workflow the Manager was allowed to move task 1 or 2 to
\* Done while a task that is not Done blocks it
C18_Witness ==
    /\ last.op = "validate_transition"
    /\ last.args[4] = "Done"
    /\ DefaultIndices(workflows, last.args[1]) # {}
    /\ last.ret = [allowed |-> TRUE, reason |-> None]
    /\ Cardinality(BlockingEdges(last.args[2])) > 0
    /\ check_blocking_tasks(dependencies, tasks, last.args[2]) # <<>>

(***************************************************************************)
(* Order of the preconditions of create_dependency                         *)
(***************************************************************************)
\* the reason of the first violated precondition in the order: task, task
\* depended on, self-dependency, duplicate ordered edge, cycle
FirstViolated(deps, task_id, depends_on_task_id) ==
    IF ~TaskIsActive(task_id) THEN Some("Task not found")
    ELSE IF ~TaskIsActive(depends_on_task_id) THEN Some("Dependency task not found")
    ELSE IF task_id = depends_on_task_id THEN Some("Task cannot depend on itself")
    ELSE IF \E i \in 1..Len(deps) : /\ deps[i].task_id = task_id
                                    /\ deps[i].depends_on_task_id = depends_on_task_id
         THEN Some("Dependency already exists")
    ELSE IF task_id \in ReachableFrom(deps, depends_on_task_id)
         THEN Some("Circular dependency detected")
    ELSE None

\* C25: a create_dependency that fails reports the reason of the first
\* violated precondition in the order task existence (task_id, then
\* depends_on_task_id), self-dependency, duplicate ordered edge, cycle.
C25_FirstViolatedReported ==
    [][\A t \in Tasks, d \in Tasks, ty \in DependencyTypes :
          (create_dependency(t, d, ty, 1, TRUE) /\ last'.ret[1] = "ValueError")
          => Some(last'.ret[2]) = FirstViolated(dependencies, t, d)]_vars

(***************************************************************************)
(* The cycle check on every graph                                          *)
(***************************************************************************)
StoredActive(t) == t \in DOMAIN tasks /\ tasks[t] # None /\ ~tasks[t][1].deleted

\* the four preconditions of an insertion of (t, d)
MayInsert(t, d) ==
    /\ StoredActive(t) /\ StoredActive(d)
    /\ t # d
    /\ ~\E i \in 1..Len(dependencies) : /\ dependencies[i].task_id = t
                                        /\ dependencies[i].depends_on_task_id = d
    /\ t \notin ReachableFrom(dependencies, d)

\* C27: create_dependency(T, D, type) succeeds and appends exactly the edge
\* (T, D, type) whenever both tasks are stored and not deleted, T # D, the
\* ordered pair is new and T is not reachable from D; the cycle check is
\* true iff T is reachable from D over zero or more edges.
C27_InsertsWheneverAllowed ==
    [][/\ \A t \in GraphTasks, d \in GraphTasks, ty \in DependencyTypes :
              (/\ last'.op = "create_dependency"
               /\ create_dependency(t, d, ty, 1, TRUE)
               /\ MayInsert(t, d))
              => /\ last'.ret[1] = "ok"
                 /\ Len(dependencies') = Len(dependencies) + 1
                 /\ SubSeq(dependencies', 1, Len(dependencies)) = dependencies
                 /\ LET edge == dependencies'[Len(dependencies')]
                    IN /\ edge.task_id = t
                       /\ edge.depends_on_task_id = d
                       /\ edge.type = ty
                       /\ last'.ret[2] = edge
       /\ \A t \in GraphTasks, d \in GraphTasks :
              (/\ last'.op = "_has_circular_dependency"
               /\ HasCircularDependency(t, d))
              => (last'.ret <=> (t = d \/ t \in ReachableFrom(dependencies, d)))]_vars

\* an edge from task 1 was accepted to a task that lies on a cycle task 1
\* is not part of
C27_Witness ==
    /\ last.op = "create_dependency"
    /\ last.ret[1] = "ok"
    /\ last.args[1] = 1
    /\ 1 \notin ReachableFrom(dependencies, 1)
    /\ last.args[2] \in ReachableFrom(dependencies, last.args[2])

(***************************************************************************)
(* The traversal of the cycle check                                        *)
(***************************************************************************)
\* C28: the traversal of a create_dependency call ends on every edge set,
\* diamonds and edge sets with a cycle away from task_id included, and it
\* fetches the outgoing edges of a task at most once per call.
C28_TraversalEndsReadsOnce ==
    /\ [](\A c \in Callers :
             \A i \in 1..Len(calls[c].reads), j \in 1..Len(calls[c].reads) :
                 i # j => calls[c].reads[i] # calls[c].reads[j])
    /\ \A c \in Callers : (calls[c].pc = "cycle") ~> (calls[c].pc # "cycle")

\* the traversal ran to the end of its queue over a graph of four edges or
\* more in which a task it fetched lies on a cycle
C28_Witness ==
    /\ calls[1].pc = "find_existing"
    /\ Len(dependencies) >= 4
    /\ Len(calls[1].reads) = 3
    /\ \E i \in 1..3 : calls[1].reads[i] \in ReachableFrom(dependencies, calls[1].reads[i])

(***************************************************************************)
(* Enumeration against validation                                          *)
(***************************************************************************)
\* C24: under a default workflow, validate_transition allows (s, to_status)
\* to a user iff to_status is among what get_available_transitions lists for
\* s and that user, also when several transitions have the same pair.
C24_EnumerationAgrees ==
    (last.op = "validate_transition" /\ DefaultIndices(workflows, last.args[1]) # {})
    => (last.ret.allowed
        <=> last.args[4] \in Range(GetAvailableTransitions(workflows, user_roles, CacheState,
                                                          last.args[1], last.args[3],
                                                          last.args[5], RoleEnvUp).ret))

(***************************************************************************)
(* Roles and the scope of a project                                        *)
(***************************************************************************)
\* the role names a user holds for project P: organization-wide rows and
\* rows scoped to P
RoleNamesIn(user_id, P) ==
    {ROLES[user_roles[i].role_id] : i \in ApplicableRows(user_id, Some("project"), Some(P))}

C21_NoStaleWriteBack ==
    (\A c \in Callers : cacheCalls[c].pc \in {"idle", "done"})
    => \A u \in Users :
           \/ redis[u] = None
           \/ JsonLoads(redis[u][1]) = RoleProjection(user_roles, u)

\* C29: a cache_delete(key) that runs while the Redis server is reachable
\* leaves no entry for the key, also when another request's first
\* _get_client is between the assignment of the client and the answer of
\* the ping.
C29_EvictionNotSkipped ==
    [][\A c \in Callers :
          (/\ cacheCalls[c].pc # "done"
           /\ cacheCalls'[c].pc = "done"
           /\ cacheCalls'[c].op = "cache_delete")
          => redis'[cacheCalls'[c].key] = None]_vars

\* C30: the client object is constructed at most once when the construction
\* succeeds, and once assigned the handle is never replaced or reset.
C30_ClientBuiltOnce ==
    /\ [](/\ \A c \in Callers : cacheCalls[c].built <= 1
          /\ Cardinality({c \in Callers : cacheCalls[c].built = 1}) <= 1)
    /\ [][redis_client # None => redis_client' = redis_client]_vars

\* two calls were in progress on the one client, the first still waiting
\* for the answer of its ping
C30_Witness ==
    /\ redis_client # None
    /\ cacheCalls[1].pc = "ping" /\ cacheCalls[1].built = 1
    /\ cacheCalls[2].pc = "done" /\ cacheCalls[2].built = 0 /\ cacheCalls[2].skipped

(***************************************************************************)
(* Properties of concurrent default-setting calls                          *)
(***************************************************************************)
\* C22: when no create_workflow or update_workflow call is in progress, at
\* most one non-deleted workflow of a project is the default, however the
\* calls that set the default were interleaved.
C22_OneDefaultAfterRace ==
    (\A c \in Callers : wfCalls[c].pc \in {"idle", "done"})
    => \A p \in Projects : Cardinality(DefaultIndices(workflows, p)) <= 1

\* a call that found a default W1 and has begun to replace it by its own W2
Switching(c) ==
    /\ wfCalls[c].pc \in {"clear", "write", "audit"}
    /\ wfCalls[c].found # <<>>

\* what one workflow document says about a pair for a user
AllowedBy(wf, from_status, to_status, user_id) ==
    LET M == MatchesOf(wf, from_status, to_status)
        matched == wf.transitions[CHOOSE i \in M : \A j \in M : i <= j]
    IN /\ M # {}
       /\ \/ matched.allowed_roles = <<>>
          \/ StoredRoleNames(user_id) \cap Range(matched.allowed_roles) # {}

\* C23: while a call replaces the default W1 of a project by W2, a default
\* workflow of the project is stored in every intermediate state, and a
\* validate_transition that runs in between allows a pair only if W1 or W2
\* allows it.
C23_SwitchNeverWithoutDefault ==
    [][(\E c \in Callers : Switching(c)) =>
          /\ DefaultIndices(workflows, 1) # {}
          /\ (/\ last'.op = "validate_transition"
              /\ UNCHANGED <<wfCalls, workflows>>
              /\ last'.ret.allowed)
             => \E c \in Callers :
                   /\ Switching(c)
                   /\ \E wf \in Range(wfCalls[c].found) \cup {wfCalls[c].workflow[1]} :
                         AllowedBy(wf, last'.args[3], last'.args[4], last'.args[5])]_vars

=============================================================================
